---- MODULE Spec2Model ----
(***************************************************************************)
(* Pipeline registry and execution orchestration of the NOVEM backend.     *)
(*                                                                         *)
(* The durable store is three tables (pipelines, versions, executions).    *)
(* Each HTTP request handler works on a private copy of the Pipeline row   *)
(* it loaded with get_object() and writes the whole row back with save();  *)
(* Django runs every statement in autocommit mode, so each statement is    *)
(* one atomic step and other handlers may run between two statements.      *)
(*                                                                         *)
(* The Compute Engine callbacks (recordStart, recordCompletion,            *)
(* recordFailure), cancel and the result of validation are not part of     *)
(* backend/pipelines; they are modelled from section 4.2 of the            *)
(* specification as atomic conditional updates of the store.               *)
(*                                                                         *)
(* SerialSpec runs the same handlers one request at a time and adds the    *)
(* DELETE endpoint and the admin's Deletion fieldset.  DatasetSpec is the  *)
(* Dataset Version Manager on the tables of backend/datasets; createVersion *)
(* and finalize are not part of backend/datasets and are modelled from     *)
(* sections 4.3 and 5 of the specification.                                *)
(***************************************************************************)
EXTENDS Integers, Sequences, FiniteSets, TLC

\* ---------------------------------------------------------------- bounds
NumPipelines == 1
NumHandlers == 2
MaxRows == 3
MaxTime == 1
NumDatasets == 1
NumCallers == 2
MaxDatasetVersions == 3

PipelineIds == 1..NumPipelines
HandlerIds == 1..NumHandlers
Times == 1..MaxTime
Configs == {"cfgA", "cfgB"}
MetricValues == {100}
DatasetVersionIds == {"DV1"}
ErrorTexts == {"boom"}
ExecutionModes == {"manual", "scheduled", "on_demand"}
ScheduleExpressions == {"", "0 * * * *"}
DatasetIds == 1..NumDatasets
CallerIds == 1..NumCallers
RowCounts == {100, 200}
StorageSizes == {2048}
QualityScores == {90}

VARIABLES
    pipelines,   \* table Pipeline: id -> row (state "absent": no row)
    versions,    \* table PipelineVersion: set of rows
    executions,  \* table PipelineExecution: sequence of rows, id = index
    handlers,    \* request handlers in progress: position, private instance
    lastOp,      \* history: the last operation that acted on each pipeline
    response,    \* history: the response returned in the last step, if any
    datasets,    \* table Dataset: id -> row
    dversions,   \* table DatasetVersion: sequence of rows, id = index
    callers,     \* createVersion calls in progress
    dresponse,   \* history: the answer of the Dataset Version Manager, if any
    scenario,    \* history: how far each dataset is in the scenario of section 8
    instances,   \* DatasetVersion objects in memory: schema fields
    edges        \* DatasetLineage rows

pipelineVars == <<pipelines, versions, executions, handlers, lastOp, response>>
datasetVars ==
    <<datasets, dversions, callers, dresponse, scenario, instances, edges>>
vars == <<pipelines, versions, executions, handlers, lastOp, response,
          datasets, dversions, callers, dresponse, scenario, instances,
          edges>>

\* ------------------------------------------------------------- the tables
PipelineStates == {"draft", "validating", "ready", "running", "completed", "failed"}
ExecutionStates == {"queued", "running", "completed", "failed", "cancelled"}
NonTerminal == {"queued", "running"}
Terminal == {"completed", "failed", "cancelled"}

\* an empty DateTimeField
NullTime == MaxTime + 1

NoRow ==
    [state |-> "absent", current_version |-> 0, config |-> "none",
     execution_mode |-> "none", schedule_expression |-> "", is_deleted |-> FALSE,
     next_scheduled_run |-> NullTime]

\* faulty variant: pipelines are born ready
DefaultState_Ready == "ready"

DefaultState == "draft"

\* faulty variant: current_version starts at 0, as Dataset.current_version does
DefaultCurrentVersion_Zero == 1 - 1

DefaultCurrentVersion == 1

\* Pipeline.objects.create(**validated_data): state, current_version and
\* is_deleted take their column defaults.
NewPipeline(cfg, mode, expr) ==
    [state |-> DefaultState, current_version |-> DefaultCurrentVersion,
     config |-> cfg, execution_mode |-> mode, schedule_expression |-> expr,
     is_deleted |-> FALSE, next_scheduled_run |-> NullTime]

NewVersion(p, n, cfg) ==
    [pipeline |-> p, version_number |-> n, config_snapshot |-> cfg]

\* faulty variant: the execution is created already running
NewExecution_Running(p, n) ==
    [pipeline |-> p, pipeline_version |-> n, state |-> "running",
     started_at |-> 0, completed_at |-> 0, rows_processed |-> 0,
     error_message |-> "", created_dataset_version |-> ""]

\* PipelineExecution.objects.create(pipeline, pipeline_version, state='queued')
NewExecution(p, n) ==
    [pipeline |-> p, pipeline_version |-> n, state |-> "queued",
     started_at |-> 0, completed_at |-> 0, rows_processed |-> 0,
     error_message |-> "", created_dataset_version |-> ""]

\* pipeline.versions.get(version_number=n) finds a row
VersionExists(p, n) ==
    \E v \in versions : v.pipeline = p /\ v.version_number = n

ExecutionIds == 1..Len(executions)

ActiveExecutions(p) ==
    {e \in ExecutionIds :
        executions[e].pipeline = p /\ executions[e].state \in NonTerminal}

Exists(p) == pipelines[p].state # "absent"

\* faulty variant: the queryset does not filter on is_deleted
Visible_WithDeleted(p) == Exists(p)

\* get_queryset(): the row exists and is_deleted is False
Visible(p) == Exists(p) /\ ~pipelines[p].is_deleted

\* ----------------------------------------------- the dataset tables
DatasetVersionStates == {"creating", "ready", "failed"}

\* Dataset.current_version = models.IntegerField(default=0)
DefaultDatasetCurrentVersion == 0

NoDataset == [exists |-> FALSE, current_version |-> 0]
NewDataset == [exists |-> TRUE, current_version |-> DefaultDatasetCurrentVersion]

\* faulty variant: a version is born ready
DefaultVersionState_Ready == "ready"

\* DatasetVersion.state default
DefaultVersionState == "creating"

\* a DatasetVersion row as inserted: metrics at their column defaults
\* (row_count 0, storage_size_bytes 0, quality_score null, written 0 here)
NewDatasetVersion(d, n) ==
    [dataset |-> d, version_number |-> n, state |-> DefaultVersionState,
     row_count |-> 0, storage_size_bytes |-> 0, quality_score |-> 0,
     deleted |-> FALSE]

\* the rows of the table: a row removed by version.delete() keeps its place
\* in the sequence, marked deleted, so that the ids of the others stay
StoredVersionIds == {v \in 1..Len(dversions) : ~dversions[v].deleted}

VersionNumbers(d) ==
    {dversions[i].version_number :
        i \in {j \in StoredVersionIds : dversions[j].dataset = d}}

\* faulty variant: the store has no uniqueness constraint
SlotTaken_Never(d, n) == FALSE

\* unique_together = [['dataset', 'version_number']]
SlotTaken(d, n) == n \in VersionNumbers(d)

SetMax(S) == CHOOSE x \in S : \A y \in S : y <= x

\* the current max version number of the dataset, 0 when it has none
MaxVersionNumber(d) == SetMax(VersionNumbers(d) \cup {0})

IdleCaller ==
    [pc |-> "idle", dataset |-> 0, n |-> 0, retries |-> 0, cv |-> 0, vid |-> 0]

\* ---------------------------------------------------- DatasetLineage rows
NumDataSources == 1
MaxEdges == 2
DataSourceIds == 1..NumDataSources
LineageTypes == {"source", "pipeline", "dataset"}

\* a null foreign key
NoRef == 0

\* a row not yet saved has no id
Edge(v, kind, ds, p, dv) ==
    [id |-> 0, dataset_version |-> v, source_type |-> kind,
     source_data_source |-> ds, source_pipeline |-> p,
     source_dataset_version |-> dv]

NoEdge == Edge(NoRef, "none", NoRef, NoRef, NoRef)

\* on_delete of the three foreign keys to a DatasetVersion: CASCADE for
\* dataset_version, SET_NULL for source_dataset_version
AfterVersionDelete(v) ==
    {[e EXCEPT !.source_dataset_version = IF @ = v THEN NoRef ELSE @] :
        e \in {x \in edges : x.dataset_version # v}}

\* on_delete=SET_NULL of source_pipeline
AfterPipelineDelete(p) ==
    {[e EXCEPT !.source_pipeline = IF @ = p THEN NoRef ELSE @] : e \in edges}

NoAnswer ==
    [op |-> "none", dataset |-> 0, vid |-> 0, n |-> 0, result |-> "none",
     retries |-> 0, row_count |-> 0, edge |-> NoEdge, lineage |-> {}]

\* ----------------------------------------------------------- the handlers
IdleHandler ==
    [pc |-> "idle", pid |-> 0, inst |-> NoRow, eid |-> 0,
     activeAtCall |-> FALSE, lastOpAtCall |-> "none"]

Idle(h) == handlers[h].pc = "idle"

Begin(h, pc, p) ==
    [handlers EXCEPT ![h] = [IdleHandler EXCEPT
        !.pc = pc, !.pid = p, !.inst = pipelines[p]]]

\* rows that handlers in progress are still going to insert
PendingCreates ==
    Cardinality({h \in HandlerIds :
        handlers[h].pc \in {"exec_version", "exec_create", "upd_version",
                            "create_version"}})

\* the model stops inserting when the version and execution tables together
\* hold MaxRows rows
RoomForRow ==
    Cardinality(versions) + Len(executions) + PendingCreates < MaxRows

\* ------------------------------- PipelineExecution.duration_seconds
MaxStamp == 3
StampTimes == 1..MaxStamp

\* None
Undefined == [defined |-> FALSE, seconds |-> 0]

\* faulty variant: only started_at is looked at
DurationSeconds_StartedOnly(x) ==
    IF x.started_at # 0
    THEN [defined |-> TRUE, seconds |-> x.completed_at - x.started_at]
    ELSE Undefined

\* an empty timestamp is 0; a datetime is always true in a condition
DurationSeconds(x) ==
    IF x.started_at # 0 /\ x.completed_at # 0
    THEN [defined |-> TRUE, seconds |-> x.completed_at - x.started_at]
    ELSE Undefined

NoResponse ==
    [op |-> "none", pid |-> 0, eid |-> 0, result |-> "none",
     stateAtCall |-> "absent", activeAtCall |-> FALSE, lastOpAtCall |-> "none",
     mode |-> "none", expr |-> "", now |-> 0, due |-> {},
     duration |-> Undefined]

\* the handler's response is sent
Respond(op, p, res) ==
    response' = [NoResponse EXCEPT !.op = op, !.pid = p, !.result = res]

\* lastOp keeps apart only what the scenarios of section 8 ask about
Remembered == {"creating", "create", "recordCompletion", "recordFailure"}

Touch(p, op) ==
    lastOp' = [lastOp EXCEPT ![p] = IF op \in Remembered THEN op ELSE "other"]

\* ----------------------------------------- DatasetVersion.schema, a JSON
\* object.  A Python dict is the sequence of its <<key, value>> items in
\* insertion order; a list is a sequence.  A schema maps "columns" and
\* "indexes" to lists of flat objects.
NumInstances == 2
MaxColumns == 1
InstanceIds == 1..NumInstances
ColumnNames == {"id"}
ColumnTypes == {"INTEGER"}

EmptySchema == <<>>

ColumnDicts ==
    UNION {{ << <<"name", n>>, <<"type", t>> >>,
             << <<"type", t>>, <<"name", n>> >> } :
                n \in ColumnNames, t \in ColumnTypes}

ColumnLists == UNION {[1..k -> ColumnDicts] : k \in 0..MaxColumns}

Schemas ==
    {EmptySchema, << <<"indexes", <<>> >> >>}
    \cup UNION {{ << <<"columns", l>> >>,
                  << <<"columns", l>>, <<"indexes", <<>> >> >>,
                  << <<"indexes", <<>> >>, <<"columns", l>> >> } :
                    l \in ColumnLists}

\* the keys that occur, in the order Python sorts strings
KeyOrder == <<"columns", "indexes", "name", "type">>

KeysOf(d) == {d[i][1] : i \in 1..Len(d)}
Get(d, k) == d[CHOOSE i \in 1..Len(d) : d[i][1] = k][2]

\* faulty variant: sort_keys left out, items in insertion order
Items_Unsorted(d) == d

\* sort_keys=True: the items of a dict ordered by key
Items(d) ==
    LET present == SelectSeq(KeyOrder, LAMBDA k : k \in KeysOf(d))
    IN  [i \in 1..Len(present) |-> <<present[i], Get(d, present[i])>>]

RECURSIVE Join(_)
Join(parts) ==
    IF Len(parts) = 0 THEN <<>>
    ELSE IF Len(parts) = 1 THEN parts[1]
    ELSE parts[1] \o <<", ">> \o Join(Tail(parts))

\* json.dumps of a flat object, of a list of flat objects, of a schema; the
\* text is kept as its sequence of tokens
DumpsObject(d) ==
    <<"{">> \o Join([i \in 1..Len(d) |->
                        <<Items(d)[i][1], ": ", Items(d)[i][2]>>]) \o <<"}">>

DumpsArray(l) ==
    <<"[">> \o Join([i \in 1..Len(l) |-> DumpsObject(l[i])]) \o <<"]">>

Dumps(schema) ==
    <<"{">> \o Join([i \in 1..Len(schema) |->
                        <<Items(schema)[i][1], ": ">>
                            \o DumpsArray(Items(schema)[i][2])]) \o <<"}">>

\* hashlib.sha256(...).hexdigest(): the digest is kept symbolic, as the
\* text it was taken of under the name of the algorithm
Sha256(text) == <<"sha256", text>>

\* the empty CharField
NoHash == <<>>

CalculateSchemaHash(schema) == Sha256(Dumps(schema))

\* DatasetVersion(schema=...) before its first save; hashed_schema is
\* history: the schema the stored fingerprint was computed of
NewInstance(schema) ==
    [schema |-> schema, schema_hash |-> NoHash, column_count |-> 0,
     hashed_schema |-> EmptySchema]

\* faulty variant: the fingerprint follows the schema at every save
NeedsHash_Always(v) == v.schema # EmptySchema

\* if self.schema and not self.schema_hash
NeedsHash(v) == v.schema # EmptySchema /\ v.schema_hash = NoHash

\* DatasetVersion.save()
SaveInstance(v) ==
    [v EXCEPT
        !.schema_hash = IF NeedsHash(v) THEN CalculateSchemaHash(v.schema)
                        ELSE @,
        !.hashed_schema = IF NeedsHash(v) THEN v.schema ELSE @,
        !.column_count = IF v.schema # EmptySchema /\ "columns" \in KeysOf(v.schema)
                         THEN Len(Get(v.schema, "columns"))
                         ELSE @]

Init ==
    /\ pipelines = [p \in PipelineIds |-> NoRow]
    /\ versions = {}
    /\ executions = <<>>
    /\ handlers = [h \in HandlerIds |-> IdleHandler]
    /\ lastOp = [p \in PipelineIds |-> "none"]
    /\ response = NoResponse
    /\ datasets = [d \in DatasetIds |-> NoDataset]
    /\ dversions = <<>>
    /\ callers = [c \in CallerIds |-> IdleCaller]
    /\ dresponse = NoAnswer
    /\ scenario = [d \in DatasetIds |-> "none"]
    /\ instances = [i \in InstanceIds |-> NewInstance(EmptySchema)]
    /\ edges = {}

\* ------------------------------------------------ PipelineViewSet.execute
\* faulty variant: the second state check lets a draft pipeline through
ExecutableStates_WithDraft == {"draft", "ready", "completed", "failed"}

\* faulty variant: only a pipeline that never ran may be triggered
ExecutableStates_ReadyOnly == {"ready"}

ExecutableStates == {"ready", "completed", "failed"}

\* what the trigger's caller is told, with the history its claims ask about
ExecuteResponse(p, e, res, st, active, last) ==
    response' = [op |-> "execute", pid |-> p, eid |-> e, result |-> res,
                 stateAtCall |-> st, activeAtCall |-> active,
                 lastOpAtCall |-> last]

\* get_object() and the two checks of pipeline.state on the loaded instance
ExecuteLoad(h, p) ==
    /\ Idle(h)
    /\ LET row == pipelines[p]
           active == ActiveExecutions(p) # {}
       IN  IF ~Visible(p)
           THEN /\ ExecuteResponse(p, 0, "NotFound", row.state, active, lastOp[p])
                /\ UNCHANGED <<handlers, lastOp>>
           ELSE IF row.state \notin ExecutableStates
           THEN /\ ExecuteResponse(p, 0, "Conflict", row.state, active, lastOp[p])
                /\ UNCHANGED <<handlers, lastOp>>
           ELSE /\ RoomForRow
                /\ handlers' = [handlers EXCEPT ![h] =
                      [pc |-> "exec_version", pid |-> p, inst |-> row,
                       eid |-> 0, activeAtCall |-> active, lastOpAtCall |-> lastOp[p]]]
                /\ Touch(p, "execute")
                /\ response' = NoResponse
    /\ UNCHANGED <<pipelines, versions, executions>>

\* pipeline.versions.get(version_number=pipeline.current_version)
ExecuteGetVersion(h) ==
    /\ handlers[h].pc = "exec_version"
    /\ LET me == handlers[h]
       IN  IF VersionExists(me.pid, me.inst.current_version)
           THEN /\ handlers' = [handlers EXCEPT ![h].pc = "exec_create"]
                /\ response' = NoResponse
           ELSE /\ handlers' = [handlers EXCEPT ![h] = IdleHandler]
                /\ ExecuteResponse(me.pid, 0, "ValidationError", me.inst.state,
                                   me.activeAtCall, me.lastOpAtCall)
    /\ UNCHANGED <<pipelines, versions, executions, lastOp>>

\* faulty variant: update_or_create, the pipeline's latest execution row is reused
ExecuteCreate_Reuse(h) ==
    /\ handlers[h].pc = "exec_create"
    /\ LET me == handlers[h]
           mine == {e \in ExecutionIds : executions[e].pipeline = me.pid}
           fresh == NewExecution(me.pid, me.inst.current_version)
       IN  IF mine = {}
           THEN /\ executions' = Append(executions, fresh)
                /\ handlers' = [handlers EXCEPT
                       ![h].pc = "exec_save", ![h].eid = Len(executions) + 1]
           ELSE LET last == CHOOSE e \in mine : \A f \in mine : f <= e
                IN  /\ executions' = [executions EXCEPT ![last] = fresh]
                    /\ handlers' = [handlers EXCEPT
                           ![h].pc = "exec_save", ![h].eid = last]
    /\ Touch(handlers[h].pid, "execute")
    /\ response' = NoResponse
    /\ UNCHANGED <<pipelines, versions>>

\* PipelineExecution.objects.create(...)
ExecuteCreate(h) ==
    /\ handlers[h].pc = "exec_create"
    /\ executions' = Append(executions,
           NewExecution(handlers[h].pid, handlers[h].inst.current_version))
    /\ handlers' = [handlers EXCEPT
           ![h].pc = "exec_save", ![h].eid = Len(executions) + 1]
    /\ Touch(handlers[h].pid, "execute")
    /\ response' = NoResponse
    /\ UNCHANGED <<pipelines, versions>>

\* pipeline.state = 'running'; pipeline.save()  (every column is written)
ExecuteSave(h) ==
    /\ handlers[h].pc = "exec_save"
    /\ LET me == handlers[h]
       IN  /\ pipelines' = [pipelines EXCEPT
                  ![me.pid] = [me.inst EXCEPT !.state = "running"]]
           /\ ExecuteResponse(me.pid, me.eid, "ok", me.inst.state,
                              me.activeAtCall, me.lastOpAtCall)
           /\ Touch(me.pid, "execute")
    /\ handlers' = [handlers EXCEPT ![h] = IdleHandler]
    /\ UNCHANGED <<versions, executions>>

\* ----------------------------------------------- PipelineViewSet.validate
ValidateLoad(h, p) ==
    /\ Idle(h)
    /\ IF Visible(p)
       THEN /\ handlers' = Begin(h, "val_save", p)
            /\ Touch(p, "validate")
            /\ response' = NoResponse
       ELSE /\ Respond("validate", p, "NotFound")
            /\ UNCHANGED <<handlers, lastOp>>
    /\ UNCHANGED <<pipelines, versions, executions>>

ValidateSave(h) ==
    /\ handlers[h].pc = "val_save"
    /\ pipelines' = [pipelines EXCEPT
           ![handlers[h].pid] = [handlers[h].inst EXCEPT !.state = "validating"]]
    /\ handlers' = [handlers EXCEPT ![h] = IdleHandler]
    /\ Respond("validate", handlers[h].pid, "ok")
    /\ Touch(handlers[h].pid, "validate")
    /\ UNCHANGED <<versions, executions>>

\* ------------------------------------- PipelineViewSet.estimate_resources
\* The estimate columns are not tracked: the handler's effect on the rest of
\* the row is that save() writes back every column of the loaded instance.
EstimateLoad(h, p) ==
    /\ Idle(h)
    /\ IF Visible(p)
       THEN /\ handlers' = Begin(h, "est_save", p)
            /\ Touch(p, "estimate")
            /\ response' = NoResponse
       ELSE /\ Respond("estimate", p, "NotFound")
            /\ UNCHANGED <<handlers, lastOp>>
    /\ UNCHANGED <<pipelines, versions, executions>>

EstimateSave(h) ==
    /\ handlers[h].pc = "est_save"
    /\ pipelines' = [pipelines EXCEPT ![handlers[h].pid] = handlers[h].inst]
    /\ handlers' = [handlers EXCEPT ![h] = IdleHandler]
    /\ Respond("estimate", handlers[h].pid, "ok")
    /\ Touch(handlers[h].pid, "estimate")
    /\ UNCHANGED <<versions, executions>>

\* ------------------------- PipelineSerializer.validate and .create
\* the answer to a create request, with the request's mode and expression
CreateResponse(p, res, mode, expr) ==
    response' = [NoResponse EXCEPT
        !.op = "create", !.pid = p, !.result = res,
        !.mode = mode, !.expr = expr]

\* faulty variant: validate() lets every request through
ValidData_Any(mode, expr) == TRUE

\* validate(): a scheduled pipeline needs a schedule expression
ValidData(mode, expr) == ~(mode = "scheduled" /\ expr = "")

\* p is the id the new row gets: one that no row has
CreatePipeline(h, p, cfg, mode, expr) ==
    /\ Idle(h)
    /\ ~Exists(p)
    /\ IF ValidData(mode, expr)
       THEN /\ RoomForRow
            /\ pipelines' = [pipelines EXCEPT ![p] = NewPipeline(cfg, mode, expr)]
            /\ handlers' = [handlers EXCEPT ![h] = [IdleHandler EXCEPT
                   !.pc = "create_version", !.pid = p,
                   !.inst = NewPipeline(cfg, mode, expr)]]
            /\ Touch(p, "creating")
            /\ response' = NoResponse
       ELSE /\ CreateResponse(p, "ValidationError", mode, expr)
            /\ UNCHANGED <<pipelines, handlers, lastOp>>
    /\ UNCHANGED <<versions, executions>>

CreateVersion(h) ==
    /\ handlers[h].pc = "create_version"
    /\ versions' = versions \cup
           {NewVersion(handlers[h].pid, 1, handlers[h].inst.config)}
    /\ handlers' = [handlers EXCEPT ![h] = IdleHandler]
    /\ CreateResponse(handlers[h].pid, "ok", handlers[h].inst.execution_mode,
                      handlers[h].inst.schedule_expression)
    /\ lastOp' = [lastOp EXCEPT ![handlers[h].pid] =
           IF @ = "creating" THEN "create" ELSE @]
    /\ UNCHANGED <<pipelines, executions>>

\* ------------------------------------------- PipelineSerializer.update
\* faulty variant: every update counts as a config change
ConfigChanged_Always(cfg, row) == TRUE

\* faulty variant: no update counts as a config change
ConfigChanged_Never(cfg, row) == FALSE

\* config_changed = validated_data['config'] != instance.config
ConfigChanged(cfg, row) == cfg # row.config

\* get_object(), config_changed, setattr(...) and current_version += 1
UpdateLoad(h, p, cfg) ==
    /\ Idle(h)
    /\ IF ~Visible(p)
       THEN /\ Respond("update", p, "NotFound")
            /\ UNCHANGED <<handlers, lastOp>>
       ELSE LET row == pipelines[p]
                config_changed == ConfigChanged(cfg, row)
            IN  /\ config_changed => RoomForRow
                /\ handlers' = [handlers EXCEPT ![h] = [IdleHandler EXCEPT
                      !.pid = p,
                      !.pc = IF config_changed THEN "upd_version" ELSE "upd_save",
                      !.inst = [row EXCEPT
                          !.config = cfg,
                          !.current_version =
                              IF config_changed THEN @ + 1 ELSE @]]]
                /\ Touch(p, "update")
                /\ response' = NoResponse
    /\ UNCHANGED <<pipelines, versions, executions>>

\* PipelineVersion.objects.create(...) under unique_together
UpdateCreateVersion(h) ==
    /\ handlers[h].pc = "upd_version"
    /\ LET me == handlers[h]
       IN  IF VersionExists(me.pid, me.inst.current_version)
           THEN /\ handlers' = [handlers EXCEPT ![h] = IdleHandler]
                /\ Respond("update", me.pid, "IntegrityError")
                /\ UNCHANGED versions
           ELSE /\ versions' = versions \cup
                      {NewVersion(me.pid, me.inst.current_version, me.inst.config)}
                /\ handlers' = [handlers EXCEPT ![h].pc = "upd_save"]
                /\ response' = NoResponse
    /\ Touch(handlers[h].pid, "update")
    /\ UNCHANGED <<pipelines, executions>>

UpdateSave(h) ==
    /\ handlers[h].pc = "upd_save"
    /\ pipelines' = [pipelines EXCEPT ![handlers[h].pid] = handlers[h].inst]
    /\ handlers' = [handlers EXCEPT ![h] = IdleHandler]
    /\ Respond("update", handlers[h].pid, "ok")
    /\ Touch(handlers[h].pid, "update")
    /\ UNCHANGED <<versions, executions>>

\* --------------------------------- validation result (Compute Engine)
\* lifecycle validating -> ready
MarkReady(p) ==
    /\ pipelines[p].state = "validating"
    /\ pipelines' = [pipelines EXCEPT ![p].state = "ready"]
    /\ Touch(p, "markReady")
    /\ response' = NoResponse
    /\ UNCHANGED <<versions, executions, handlers>>

\* ------------------------------------------------ Execution Orchestrator
Called(op, e, res) ==
    response' = [NoResponse EXCEPT
        !.op = op, !.pid = executions[e].pipeline, !.eid = e, !.result = res]

Rejected(op, e) ==
    /\ Called(op, e, "InvalidTransition")
    /\ UNCHANGED <<pipelines, versions, executions, handlers, lastOp>>

\* faulty variant: a repeated recordStart is accepted and stamps again
RecordStart_Again(e, t) ==
    IF executions[e].state \in NonTerminal
    THEN /\ executions' = [executions EXCEPT
                ![e].state = "running", ![e].started_at = t]
         /\ Called("recordStart", e, "ok")
         /\ Touch(executions[e].pipeline, "recordStart")
         /\ UNCHANGED <<pipelines, versions, handlers>>
    ELSE Rejected("recordStart", e)

\* recordStart(executionId): valid only from queued; sets started_at
RecordStart(e, t) ==
    IF executions[e].state = "queued"
    THEN /\ executions' = [executions EXCEPT
                ![e].state = "running", ![e].started_at = t]
         /\ Called("recordStart", e, "ok")
         /\ Touch(executions[e].pipeline, "recordStart")
         /\ UNCHANGED <<pipelines, versions, handlers>>
    ELSE Rejected("recordStart", e)

\* faulty variant: completion is accepted from queued as well
RecordCompletion_FromQueued(e, t, m, dv) ==
    IF executions[e].state \in NonTerminal
    THEN /\ t >= executions[e].started_at
         /\ executions' = [executions EXCEPT
                ![e].state = "completed", ![e].completed_at = t,
                ![e].rows_processed = m, ![e].created_dataset_version = dv]
         /\ pipelines' = [pipelines EXCEPT
                ![executions[e].pipeline].state = "completed"]
         /\ Called("recordCompletion", e, "ok")
         /\ Touch(executions[e].pipeline, "recordCompletion")
         /\ UNCHANGED <<versions, handlers>>
    ELSE Rejected("recordCompletion", e)

\* faulty variant: a late completion overwrites a cancelled execution
RecordCompletion_AfterCancel(e, t, m, dv) ==
    IF executions[e].state \in {"running", "cancelled"}
    THEN /\ t >= executions[e].started_at
         /\ executions' = [executions EXCEPT
                ![e].state = "completed", ![e].completed_at = t,
                ![e].rows_processed = m, ![e].created_dataset_version = dv]
         /\ pipelines' = [pipelines EXCEPT
                ![executions[e].pipeline].state = "completed"]
         /\ Called("recordCompletion", e, "ok")
         /\ Touch(executions[e].pipeline, "recordCompletion")
         /\ UNCHANGED <<versions, handlers>>
    ELSE Rejected("recordCompletion", e)

\* recordCompletion(executionId, metrics, producedDatasetVersionId)
RecordCompletion(e, t, m, dv) ==
    IF executions[e].state = "running"
    THEN /\ t >= executions[e].started_at
         /\ executions' = [executions EXCEPT
                ![e].state = "completed", ![e].completed_at = t,
                ![e].rows_processed = m, ![e].created_dataset_version = dv]
         /\ pipelines' = [pipelines EXCEPT
                ![executions[e].pipeline].state = "completed"]
         /\ Called("recordCompletion", e, "ok")
         /\ Touch(executions[e].pipeline, "recordCompletion")
         /\ UNCHANGED <<versions, handlers>>
    ELSE Rejected("recordCompletion", e)

\* faulty variant: the failure is stored on the execution only
RecordFailure_ExecutionOnly(e, msg) ==
    IF executions[e].state \in NonTerminal
    THEN /\ executions' = [executions EXCEPT
                ![e].state = "failed", ![e].error_message = msg]
         /\ Called("recordFailure", e, "ok")
         /\ Touch(executions[e].pipeline, "recordFailure")
         /\ UNCHANGED <<pipelines, versions, handlers>>
    ELSE Rejected("recordFailure", e)

\* recordFailure(executionId, errorMessage, errorDetail)
RecordFailure(e, msg) ==
    IF executions[e].state \in NonTerminal
    THEN /\ executions' = [executions EXCEPT
                ![e].state = "failed", ![e].error_message = msg]
         /\ pipelines' = [pipelines EXCEPT
                ![executions[e].pipeline].state = "failed"]
         /\ Called("recordFailure", e, "ok")
         /\ Touch(executions[e].pipeline, "recordFailure")
         /\ UNCHANGED <<versions, handlers>>
    ELSE Rejected("recordFailure", e)

\* faulty variant: cancel is accepted in every state but cancelled
Cancel_Terminal(e) ==
    IF executions[e].state # "cancelled"
    THEN /\ executions' = [executions EXCEPT ![e].state = "cancelled"]
         /\ Called("cancel", e, "ok")
         /\ Touch(executions[e].pipeline, "cancel")
         /\ UNCHANGED <<pipelines, versions, handlers>>
    ELSE Rejected("cancel", e)

\* cancel(executionId): valid only while non-terminal
Cancel(e) ==
    IF executions[e].state \in NonTerminal
    THEN /\ executions' = [executions EXCEPT ![e].state = "cancelled"]
         /\ Called("cancel", e, "ok")
         /\ Touch(executions[e].pipeline, "cancel")
         /\ UNCHANGED <<pipelines, versions, handlers>>
    ELSE Rejected("cancel", e)

\* ------------------------------------------- DELETE /pipelines/{id}/
\* PipelineViewSet is a ModelViewSet and overrides neither destroy() nor
\* perform_destroy(): get_object(), then instance.delete(), which removes the
\* row and, in the same transaction, every row that refers to it with
\* on_delete=CASCADE (versions and executions) and empties the
\* source_pipeline of the lineage rows that name it (SET_NULL).
Destroy(h, p) ==
    /\ Idle(h)
    /\ IF Visible(p)
       THEN /\ pipelines' = [pipelines EXCEPT ![p] = NoRow]
            /\ versions' = {v \in versions : v.pipeline # p}
            /\ executions' = SelectSeq(executions, LAMBDA x : x.pipeline # p)
            /\ edges' = AfterPipelineDelete(p)
            /\ Respond("destroy", p, "ok")
            /\ Touch(p, "destroy")
       ELSE /\ Respond("destroy", p, "NotFound")
            /\ UNCHANGED <<pipelines, versions, executions, lastOp, edges>>
    /\ UNCHANGED handlers

\* ------------------------------------- PipelineAdmin, fieldset Deletion
\* the admin form's is_deleted box is the only writer of the column;
\* deleted_at is read-only there and stays empty
AdminSetDeleted(p, b) ==
    /\ Exists(p)
    /\ pipelines[p].is_deleted # b
    /\ pipelines' = [pipelines EXCEPT ![p].is_deleted = b]
    /\ Touch(p, "admin")
    /\ response' = NoResponse
    /\ UNCHANGED <<versions, executions, handlers>>

\* ---------------------------------------------------------- the system
Next ==
    \/ \E h \in HandlerIds, p \in PipelineIds, cfg \in Configs :
          CreatePipeline(h, p, cfg, "manual", "")
          /\ UNCHANGED datasetVars
    \/ \E h \in HandlerIds : CreateVersion(h)
          /\ UNCHANGED datasetVars
    \/ \E h \in HandlerIds, p \in PipelineIds, cfg \in Configs :
          UpdateLoad(h, p, cfg)
          /\ UNCHANGED datasetVars
    \/ \E h \in HandlerIds : UpdateCreateVersion(h)
          /\ UNCHANGED datasetVars
    \/ \E h \in HandlerIds : UpdateSave(h)
          /\ UNCHANGED datasetVars
    \/ \E h \in HandlerIds, p \in PipelineIds : ExecuteLoad(h, p)
          /\ UNCHANGED datasetVars
    \/ \E h \in HandlerIds : ExecuteGetVersion(h)
          /\ UNCHANGED datasetVars
    \/ \E h \in HandlerIds : ExecuteCreate(h)
          /\ UNCHANGED datasetVars
    \/ \E h \in HandlerIds : ExecuteSave(h)
          /\ UNCHANGED datasetVars
    \/ \E h \in HandlerIds, p \in PipelineIds : ValidateLoad(h, p)
          /\ UNCHANGED datasetVars
    \/ \E h \in HandlerIds : ValidateSave(h)
          /\ UNCHANGED datasetVars
    \/ \E h \in HandlerIds, p \in PipelineIds : EstimateLoad(h, p)
          /\ UNCHANGED datasetVars
    \/ \E h \in HandlerIds : EstimateSave(h)
          /\ UNCHANGED datasetVars
    \/ \E p \in PipelineIds : MarkReady(p)
          /\ UNCHANGED datasetVars
    \/ \E e \in ExecutionIds, t \in Times : RecordStart(e, t)
          /\ UNCHANGED datasetVars
    \/ \E e \in ExecutionIds, t \in Times, m \in MetricValues,
          dv \in DatasetVersionIds : RecordCompletion(e, t, m, dv)
          /\ UNCHANGED datasetVars
    \/ \E e \in ExecutionIds, msg \in ErrorTexts : RecordFailure(e, msg)
          /\ UNCHANGED datasetVars
    \/ \E e \in ExecutionIds : Cancel(e)
          /\ UNCHANGED datasetVars

Spec == Init /\ [][Next]_vars

\* ---------------------------------------- one request at a time
\* ------------------------------- PATCH /pipelines/{id}/ {next_scheduled_run}
\* PipelineSerializer lists next_scheduled_run among its writable fields;
\* update() sets it on the instance and saves; the config is not in the
\* request, so no version is made
PatchNextRun(h, p, t) ==
    /\ Idle(h)
    /\ IF Visible(p)
       THEN /\ pipelines' = [pipelines EXCEPT ![p].next_scheduled_run = t]
            /\ Respond("patch", p, "ok")
            /\ Touch(p, "patch")
       ELSE /\ Respond("patch", p, "NotFound")
            /\ UNCHANGED <<pipelines, lastOp>>
    /\ UNCHANGED <<versions, executions, handlers>>

\* ------------- PATCH /pipelines/{id}/ {execution_mode, schedule_expression}
\* a partial update carries only the fields the caller sends; validate()
\* reads them with data.get, which answers None for a field left out
Absent == "absent"
PatchModes == ExecutionModes \cup {Absent}
PatchExpressions == ScheduleExpressions \cup {Absent}

\* `not data.get('schedule_expression')`: None and "" are both falsy
DataGet(expr) == IF expr = Absent THEN "" ELSE expr

\* update() sets every field of the request on the instance and saves; the
\* config is not in the request, so no version is made
PatchSchedule(h, p, mode, expr) ==
    /\ Idle(h)
    /\ IF ~Visible(p)
       THEN /\ Respond("patchSchedule", p, "NotFound")
            /\ UNCHANGED <<pipelines, lastOp>>
       ELSE IF ValidData(mode, DataGet(expr))
       THEN /\ pipelines' = [pipelines EXCEPT
                   ![p].execution_mode = IF mode = Absent THEN @ ELSE mode,
                   ![p].schedule_expression = IF expr = Absent THEN @ ELSE expr]
            /\ response' = [NoResponse EXCEPT
                   !.op = "patchSchedule", !.pid = p, !.result = "ok",
                   !.mode = mode, !.expr = expr]
            /\ Touch(p, "patch")
       ELSE /\ response' = [NoResponse EXCEPT
                   !.op = "patchSchedule", !.pid = p,
                   !.result = "ValidationError",
                   !.mode = mode, !.expr = expr]
            /\ UNCHANGED <<pipelines, lastOp>>
    /\ UNCHANGED <<versions, executions, handlers>>

\* --------------------------------------------- PipelineViewSet.scheduled
PollTimes == 0..MaxTime

\* faulty variant: the lifecycle state is not looked at
DueForExecution_AnyState(now) ==
    {p \in PipelineIds :
        /\ Visible(p)
        /\ pipelines[p].execution_mode = "scheduled"
        /\ pipelines[p].next_scheduled_run # NullTime
        /\ pipelines[p].next_scheduled_run <= now}

\* get_queryset().filter(execution_mode='scheduled', state='ready',
\* next_scheduled_run__lte=now); a row with no next_scheduled_run never
\* matches
DueForExecution(now) ==
    {p \in PipelineIds :
        /\ Visible(p)
        /\ pipelines[p].execution_mode = "scheduled"
        /\ pipelines[p].state = "ready"
        /\ pipelines[p].next_scheduled_run # NullTime
        /\ pipelines[p].next_scheduled_run <= now}

Scheduled(h, now) ==
    /\ Idle(h)
    /\ response' = [NoResponse EXCEPT !.op = "scheduled", !.result = "ok",
                                      !.now = now, !.due = DueForExecution(now)]
    /\ UNCHANGED <<pipelines, versions, executions, handlers, lastOp>>

\* no handler is between two of its statements
Quiet == \A h \in HandlerIds : Idle(h)

\* The same operations called one after the other (a call starts only when
\* no handler is in progress), with every execution mode at create, the
\* DELETE endpoint and the admin's Deletion fieldset.
SerialNext ==
    \/ \E h \in HandlerIds, p \in PipelineIds, cfg \in Configs,
          mode \in ExecutionModes, expr \in ScheduleExpressions :
          Quiet /\ CreatePipeline(h, p, cfg, mode, expr)
          /\ UNCHANGED datasetVars
    \/ \E h \in HandlerIds : CreateVersion(h)
          /\ UNCHANGED datasetVars
    \/ \E h \in HandlerIds, p \in PipelineIds, cfg \in Configs :
          Quiet /\ UpdateLoad(h, p, cfg)
          /\ UNCHANGED datasetVars
    \/ \E h \in HandlerIds : UpdateCreateVersion(h)
          /\ UNCHANGED datasetVars
    \/ \E h \in HandlerIds : UpdateSave(h)
          /\ UNCHANGED datasetVars
    \/ \E h \in HandlerIds, p \in PipelineIds : Quiet /\ ExecuteLoad(h, p)
          /\ UNCHANGED datasetVars
    \/ \E h \in HandlerIds : ExecuteGetVersion(h)
          /\ UNCHANGED datasetVars
    \/ \E h \in HandlerIds : ExecuteCreate(h)
          /\ UNCHANGED datasetVars
    \/ \E h \in HandlerIds : ExecuteSave(h)
          /\ UNCHANGED datasetVars
    \/ \E h \in HandlerIds, p \in PipelineIds : Quiet /\ ValidateLoad(h, p)
          /\ UNCHANGED datasetVars
    \/ \E h \in HandlerIds : ValidateSave(h)
          /\ UNCHANGED datasetVars
    \/ \E h \in HandlerIds, p \in PipelineIds : Quiet /\ EstimateLoad(h, p)
          /\ UNCHANGED datasetVars
    \/ \E h \in HandlerIds : EstimateSave(h)
          /\ UNCHANGED datasetVars
    \/ \E p \in PipelineIds : Quiet /\ MarkReady(p)
          /\ UNCHANGED datasetVars
    \/ \E e \in ExecutionIds, t \in Times : Quiet /\ RecordStart(e, t)
          /\ UNCHANGED datasetVars
    \/ \E e \in ExecutionIds, t \in Times, m \in MetricValues,
          dv \in DatasetVersionIds : Quiet /\ RecordCompletion(e, t, m, dv)
          /\ UNCHANGED datasetVars
    \/ \E e \in ExecutionIds, msg \in ErrorTexts : Quiet /\ RecordFailure(e, msg)
          /\ UNCHANGED datasetVars
    \/ \E e \in ExecutionIds : Quiet /\ Cancel(e)
          /\ UNCHANGED datasetVars
    \/ \E h \in HandlerIds, p \in PipelineIds : Quiet /\ Destroy(h, p)
          /\ UNCHANGED <<datasets, dversions, callers, dresponse, scenario,
                         instances>>
    \/ \E p \in PipelineIds, b \in BOOLEAN : Quiet /\ AdminSetDeleted(p, b)
          /\ UNCHANGED datasetVars

SerialSpec == Init /\ [][SerialNext]_vars

\* PipelineExecutionSerializer: the execution is read, duration_seconds
\* with it
RetrieveExecution(e) ==
    /\ response' = [NoResponse EXCEPT
           !.op = "retrieveExecution", !.pid = executions[e].pipeline,
           !.eid = e, !.result = "ok",
           !.duration = DurationSeconds(executions[e])]
    /\ UNCHANGED <<pipelines, versions, executions, handlers, lastOp>>

\* Executions from trigger to their end with timestamps of a longer clock,
\* and the read of an execution, one request at a time.
DurationNext ==
    \/ \E h \in HandlerIds, p \in PipelineIds, cfg \in Configs :
          Quiet /\ CreatePipeline(h, p, cfg, "manual", "")
          /\ UNCHANGED datasetVars
    \/ \E h \in HandlerIds : CreateVersion(h)
          /\ UNCHANGED datasetVars
    \/ \E h \in HandlerIds, p \in PipelineIds : Quiet /\ ValidateLoad(h, p)
          /\ UNCHANGED datasetVars
    \/ \E h \in HandlerIds : ValidateSave(h)
          /\ UNCHANGED datasetVars
    \/ \E p \in PipelineIds : Quiet /\ MarkReady(p)
          /\ UNCHANGED datasetVars
    \/ \E h \in HandlerIds, p \in PipelineIds : Quiet /\ ExecuteLoad(h, p)
          /\ UNCHANGED datasetVars
    \/ \E h \in HandlerIds : ExecuteGetVersion(h)
          /\ UNCHANGED datasetVars
    \/ \E h \in HandlerIds : ExecuteCreate(h)
          /\ UNCHANGED datasetVars
    \/ \E h \in HandlerIds : ExecuteSave(h)
          /\ UNCHANGED datasetVars
    \/ \E e \in ExecutionIds, t \in StampTimes : Quiet /\ RecordStart(e, t)
          /\ UNCHANGED datasetVars
    \/ \E e \in ExecutionIds, t \in StampTimes, m \in MetricValues,
          dv \in DatasetVersionIds : Quiet /\ RecordCompletion(e, t, m, dv)
          /\ UNCHANGED datasetVars
    \/ \E e \in ExecutionIds, msg \in ErrorTexts : Quiet /\ RecordFailure(e, msg)
          /\ UNCHANGED datasetVars
    \/ \E e \in ExecutionIds : Quiet /\ Cancel(e)
          /\ UNCHANGED datasetVars
    \/ \E e \in ExecutionIds : Quiet /\ RetrieveExecution(e)
          /\ UNCHANGED datasetVars

DurationSpec == Init /\ [][DurationNext]_vars

\* The Scheduler Poller and what decides its answer, one request at a time:
\* create, validation, trigger, the admin's Deletion fieldset, the PATCH of
\* the schedule fields and the poll.
SchedulerNext ==
    \/ \E h \in HandlerIds, p \in PipelineIds, cfg \in Configs,
          mode \in ExecutionModes, expr \in ScheduleExpressions :
          Quiet /\ CreatePipeline(h, p, cfg, mode, expr)
          /\ UNCHANGED datasetVars
    \/ \E h \in HandlerIds : CreateVersion(h)
          /\ UNCHANGED datasetVars
    \/ \E h \in HandlerIds, p \in PipelineIds : Quiet /\ ValidateLoad(h, p)
          /\ UNCHANGED datasetVars
    \/ \E h \in HandlerIds : ValidateSave(h)
          /\ UNCHANGED datasetVars
    \/ \E p \in PipelineIds : Quiet /\ MarkReady(p)
          /\ UNCHANGED datasetVars
    \/ \E h \in HandlerIds, p \in PipelineIds : Quiet /\ ExecuteLoad(h, p)
          /\ UNCHANGED datasetVars
    \/ \E h \in HandlerIds : ExecuteGetVersion(h)
          /\ UNCHANGED datasetVars
    \/ \E h \in HandlerIds : ExecuteCreate(h)
          /\ UNCHANGED datasetVars
    \/ \E h \in HandlerIds : ExecuteSave(h)
          /\ UNCHANGED datasetVars
    \/ \E p \in PipelineIds, b \in BOOLEAN : Quiet /\ AdminSetDeleted(p, b)
          /\ UNCHANGED datasetVars
    \/ \E h \in HandlerIds, p \in PipelineIds, t \in Times :
          Quiet /\ PatchNextRun(h, p, t)
          /\ UNCHANGED datasetVars
    \/ \E h \in HandlerIds, p \in PipelineIds, mode \in PatchModes,
          expr \in PatchExpressions : Quiet /\ PatchSchedule(h, p, mode, expr)
          /\ UNCHANGED datasetVars
    \/ \E h \in HandlerIds, now \in PollTimes : Quiet /\ Scheduled(h, now)
          /\ UNCHANGED datasetVars

SchedulerSpec == Init /\ [][SchedulerNext]_vars

\* ------------------------------------------ the poller's hand-over
\* the Scheduler Poller hands to the Execution Orchestrator what its poll
\* at time now selected: execute(p) is called for a pipeline that is due
TriggerDue(h, p, now) ==
    /\ p \in DueForExecution(now)
    /\ ExecuteLoad(h, p)

\* Scheduled runs, one request at a time: pipelines are created, validated
\* and given a next_scheduled_run; the poller polls and triggers what is
\* due; the Compute Engine calls back.
RecurrenceNext ==
    \/ \E h \in HandlerIds, p \in PipelineIds, cfg \in Configs,
          mode \in ExecutionModes, expr \in ScheduleExpressions :
          Quiet /\ CreatePipeline(h, p, cfg, mode, expr)
          /\ UNCHANGED datasetVars
    \/ \E h \in HandlerIds : CreateVersion(h)
          /\ UNCHANGED datasetVars
    \/ \E h \in HandlerIds, p \in PipelineIds : Quiet /\ ValidateLoad(h, p)
          /\ UNCHANGED datasetVars
    \/ \E h \in HandlerIds : ValidateSave(h)
          /\ UNCHANGED datasetVars
    \/ \E p \in PipelineIds : Quiet /\ MarkReady(p)
          /\ UNCHANGED datasetVars
    \/ \E h \in HandlerIds, p \in PipelineIds, t \in Times :
          Quiet /\ PatchNextRun(h, p, t)
          /\ UNCHANGED datasetVars
    \/ \E h \in HandlerIds, now \in PollTimes : Quiet /\ Scheduled(h, now)
          /\ UNCHANGED datasetVars
    \/ \E h \in HandlerIds, p \in PipelineIds, now \in PollTimes :
          Quiet /\ TriggerDue(h, p, now)
          /\ UNCHANGED datasetVars
    \/ \E h \in HandlerIds : ExecuteGetVersion(h)
          /\ UNCHANGED datasetVars
    \/ \E h \in HandlerIds : ExecuteCreate(h)
          /\ UNCHANGED datasetVars
    \/ \E h \in HandlerIds : ExecuteSave(h)
          /\ UNCHANGED datasetVars
    \/ \E e \in ExecutionIds, t \in Times : Quiet /\ RecordStart(e, t)
          /\ UNCHANGED datasetVars
    \/ \E e \in ExecutionIds, t \in Times, m \in MetricValues,
          dv \in DatasetVersionIds : Quiet /\ RecordCompletion(e, t, m, dv)
          /\ UNCHANGED datasetVars
    \/ \E e \in ExecutionIds, msg \in ErrorTexts : Quiet /\ RecordFailure(e, msg)
          /\ UNCHANGED datasetVars

RecurrenceSpec == Init /\ [][RecurrenceNext]_vars

\* ============================================ Dataset Version Manager
\* DatasetViewSet (a ModelViewSet) create: a Dataset row, no version yet
CreateDataset(d) ==
    /\ ~datasets[d].exists
    /\ datasets' = [datasets EXCEPT ![d] = NewDataset]
    /\ dresponse' = NoAnswer
    /\ UNCHANGED <<dversions, callers>>
    /\ UNCHANGED pipelineVars

PendingInserts ==
    Cardinality({c \in CallerIds : callers[c].pc \in {"insert", "retry"}})

\* the model stops allocating when the table holds MaxDatasetVersions rows
RoomForVersion == Len(dversions) + PendingInserts < MaxDatasetVersions

Answer(op, d, v, n, res, retries, rows) ==
    dresponse' = [op |-> op, dataset |-> d, vid |-> v, n |-> n, result |-> res,
                  retries |-> retries, row_count |-> rows, edge |-> NoEdge,
                  lineage |-> {}]

\* createVersion, first statement: read the current max version number
CreateVersionRead(c, d) ==
    /\ callers[c].pc = "idle"
    /\ IF datasets[d].exists
       THEN /\ RoomForVersion
            /\ callers' = [callers EXCEPT ![c] = [IdleCaller EXCEPT
                   !.pc = "insert", !.dataset = d,
                   !.n = MaxVersionNumber(d) + 1]]
            /\ dresponse' = NoAnswer
       ELSE /\ Answer("createVersion", d, 0, 0, "NotFound", 0, 0)
            /\ UNCHANGED callers
    /\ UNCHANGED <<datasets, dversions>>
    /\ UNCHANGED pipelineVars

\* createVersion, second statement: insert the next number under the
\* uniqueness constraint; a clash sends the call back to read again
CreateVersionInsert(c) ==
    /\ callers[c].pc = "insert"
    /\ LET me == callers[c]
       IN  IF SlotTaken(me.dataset, me.n)
           THEN /\ callers' = [callers EXCEPT ![c].pc = "retry"]
                /\ dresponse' = NoAnswer
                /\ UNCHANGED dversions
           ELSE /\ dversions' = Append(dversions,
                                       NewDatasetVersion(me.dataset, me.n))
                /\ callers' = [callers EXCEPT ![c] = IdleCaller]
                /\ Answer("createVersion", me.dataset, Len(dversions) + 1,
                          me.n, "ok", me.retries, 0)
    /\ UNCHANGED datasets
    /\ UNCHANGED pipelineVars

\* createVersion, retry on conflict: read the max again
CreateVersionRetry(c) ==
    /\ callers[c].pc = "retry"
    /\ callers' = [callers EXCEPT
           ![c].pc = "insert",
           ![c].n = MaxVersionNumber(callers[c].dataset) + 1,
           ![c].retries = @ + 1]
    /\ dresponse' = NoAnswer
    /\ UNCHANGED <<datasets, dversions>>
    /\ UNCHANGED pipelineVars

\* faulty variant: a ready version can be finalized again
Finalize_Again(v, rows, size, quality) ==
    /\ IF dversions[v].state \in {"creating", "ready"}
       THEN /\ dversions' = [dversions EXCEPT
                   ![v].state = "ready", ![v].row_count = rows,
                   ![v].storage_size_bytes = size,
                   ![v].quality_score = quality]
            /\ Answer("finalize", dversions[v].dataset, v,
                      dversions[v].version_number, "ok", 0, rows)
       ELSE /\ Answer("finalize", dversions[v].dataset, v,
                      dversions[v].version_number, "InvalidTransition", 0, rows)
            /\ UNCHANGED dversions
    /\ UNCHANGED <<datasets, callers>>
    /\ UNCHANGED pipelineVars

\* finalize(versionId, rowCount, sizeBytes, qualityMetrics): valid only
\* from creating
Finalize(v, rows, size, quality) ==
    /\ IF dversions[v].state = "creating"
       THEN /\ dversions' = [dversions EXCEPT
                   ![v].state = "ready", ![v].row_count = rows,
                   ![v].storage_size_bytes = size,
                   ![v].quality_score = quality]
            /\ Answer("finalize", dversions[v].dataset, v,
                      dversions[v].version_number, "ok", 0, rows)
       ELSE /\ Answer("finalize", dversions[v].dataset, v,
                      dversions[v].version_number, "InvalidTransition", 0, rows)
            /\ UNCHANGED dversions
    /\ UNCHANGED <<datasets, callers>>
    /\ UNCHANGED pipelineVars

\* a version whose finalization never succeeds is set to failed
FailVersion(v) ==
    /\ dversions[v].state = "creating"
    /\ dversions' = [dversions EXCEPT ![v].state = "failed"]
    /\ dresponse' = NoAnswer
    /\ UNCHANGED <<datasets, callers>>
    /\ UNCHANGED pipelineVars

\* the stored version of dataset d numbered n
VersionIdOf(d, n) ==
    CHOOSE v \in StoredVersionIds :
        dversions[v].dataset = d /\ dversions[v].version_number = n

\* ------------------------------------- DatasetViewSet.delete_version
\* dataset = self.get_object()
DeleteLoad(c, d, n) ==
    /\ callers[c].pc = "idle"
    /\ IF datasets[d].exists
       THEN /\ callers' = [callers EXCEPT ![c] = [IdleCaller EXCEPT
                   !.pc = "del_get", !.dataset = d, !.n = n,
                   !.cv = datasets[d].current_version]]
            /\ dresponse' = NoAnswer
       ELSE /\ Answer("deleteVersion", d, 0, n, "NotFound", 0, 0)
            /\ UNCHANGED callers
    /\ UNCHANGED <<datasets, dversions>>
    /\ UNCHANGED pipelineVars

\* version = dataset.versions.get(version_number=version_number)
DeleteGet(c) ==
    /\ callers[c].pc = "del_get"
    /\ LET me == callers[c]
       IN  IF SlotTaken(me.dataset, me.n)
           THEN /\ callers' = [callers EXCEPT
                       ![c].pc = "del_count",
                       ![c].vid = VersionIdOf(me.dataset, me.n)]
                /\ dresponse' = NoAnswer
           ELSE /\ callers' = [callers EXCEPT ![c] = IdleCaller]
                /\ Answer("deleteVersion", me.dataset, 0, me.n, "NotFound", 0, 0)
    /\ UNCHANGED <<datasets, dversions>>
    /\ UNCHANGED pipelineVars

\* faulty variant: the only version may be deleted
OnlyVersion_Never(d) == FALSE

\* dataset.versions.count() == 1
OnlyVersion(d) == Cardinality(VersionNumbers(d)) = 1

\* faulty variant: versions older than the current one are refused too
IsCurrentVersion_OrOlder(n, cv) == n <= cv

\* version.version_number == dataset.current_version
IsCurrentVersion(n, cv) == n = cv

\* the two checks: the count is a query, the comparison uses the
\* current_version of the dataset instance loaded by get_object()
DeleteCheck(c) ==
    /\ callers[c].pc = "del_count"
    /\ LET me == callers[c]
       IN  IF OnlyVersion(me.dataset) \/ IsCurrentVersion(me.n, me.cv)
           THEN /\ callers' = [callers EXCEPT ![c] = IdleCaller]
                /\ Answer("deleteVersion", me.dataset, me.vid, me.n,
                          "Conflict", 0, 0)
           ELSE /\ callers' = [callers EXCEPT ![c].pc = "del_row"]
                /\ dresponse' = NoAnswer
    /\ UNCHANGED <<datasets, dversions>>
    /\ UNCHANGED pipelineVars

\* version.delete()
DeleteRow(c) ==
    /\ callers[c].pc = "del_row"
    /\ dversions' = [dversions EXCEPT ![callers[c].vid].deleted = TRUE]
    /\ edges' = AfterVersionDelete(callers[c].vid)
    /\ callers' = [callers EXCEPT ![c] = IdleCaller]
    /\ Answer("deleteVersion", callers[c].dataset, callers[c].vid,
              callers[c].n, "ok", 0, 0)
    /\ UNCHANGED datasets
    /\ UNCHANGED pipelineVars

\* faulty variant: any stored version can be made current
SetCurrent_AnyState(d, n) ==
    /\ IF ~datasets[d].exists \/ ~SlotTaken(d, n)
       THEN /\ Answer("setCurrent", d, 0, n, "NotFound", 0, 0)
            /\ UNCHANGED datasets
       ELSE /\ datasets' = [datasets EXCEPT ![d].current_version = n]
            /\ Answer("setCurrent", d, VersionIdOf(d, n), n, "ok", 0, 0)
    /\ UNCHANGED <<dversions, callers>>
    /\ UNCHANGED pipelineVars

\* setCurrent(datasetId, versionNumber): Conflict unless the version is ready
SetCurrent(d, n) ==
    /\ IF ~datasets[d].exists \/ ~SlotTaken(d, n)
       THEN /\ Answer("setCurrent", d, 0, n, "NotFound", 0, 0)
            /\ UNCHANGED datasets
       ELSE IF dversions[VersionIdOf(d, n)].state # "ready"
       THEN /\ Answer("setCurrent", d, VersionIdOf(d, n), n, "Conflict", 0, 0)
            /\ UNCHANGED datasets
       ELSE /\ datasets' = [datasets EXCEPT ![d].current_version = n]
            /\ Answer("setCurrent", d, VersionIdOf(d, n), n, "ok", 0, 0)
    /\ UNCHANGED <<dversions, callers>>
    /\ UNCHANGED pipelineVars

DatasetNext ==
    \/ \E d \in DatasetIds : CreateDataset(d)
          /\ UNCHANGED <<scenario, instances, edges>>
    \/ \E c \in CallerIds, d \in DatasetIds : CreateVersionRead(c, d)
          /\ UNCHANGED <<scenario, instances, edges>>
    \/ \E c \in CallerIds : CreateVersionInsert(c)
          /\ UNCHANGED <<scenario, instances, edges>>
    \/ \E c \in CallerIds : CreateVersionRetry(c)
          /\ UNCHANGED <<scenario, instances, edges>>
    \/ \E v \in StoredVersionIds, rows \in RowCounts, size \in StorageSizes,
          quality \in QualityScores : Finalize(v, rows, size, quality)
          /\ UNCHANGED <<scenario, instances, edges>>
    \/ \E v \in StoredVersionIds : FailVersion(v)
          /\ UNCHANGED <<scenario, instances, edges>>
    \/ \E d \in DatasetIds, n \in 1..MaxDatasetVersions : SetCurrent(d, n)
          /\ UNCHANGED <<scenario, instances, edges>>

DatasetSpec == Init /\ [][DatasetNext]_vars

\* ------- one request at a time, with DatasetViewSet.delete_version
\* The scenario of section 8, followed per dataset: deleteVersion(D,1)
\* refused on a dataset whose only version is 1 (current), then createVersion
\* yields 2, then (finalize of 2, then) setCurrent(D,2), with no other
\* operation on the dataset in between.
Acted(d) ==
    \/ dresponse'.op # "none" /\ dresponse'.dataset = d
    \/ datasets'[d] # datasets[d]
    \/ dversions' # dversions

ScenarioAfter(d) ==
    LET a == dresponse'
    IN  IF ~Acted(d) THEN scenario[d]
        ELSE IF /\ a.op = "deleteVersion" /\ a.dataset = d /\ a.n = 1
                /\ a.result = "Conflict"
                /\ VersionNumbers(d) = {1}
                /\ datasets[d].current_version = 1
             THEN "refused"
        ELSE IF /\ scenario[d] = "refused"
                /\ a.op = "createVersion" /\ a.result = "ok" /\ a.n = 2
             THEN "created"
        ELSE IF /\ scenario[d] = "created"
                /\ a.op = "finalize" /\ a.result = "ok" /\ a.n = 2
             THEN "finalized"
        ELSE IF /\ scenario[d] = "created"
                /\ a.op = "setCurrent" /\ a.n = 2
             THEN "called"
        ELSE IF /\ scenario[d] = "finalized"
                /\ a.op = "setCurrent" /\ a.n = 2
             THEN "promoted"
        ELSE "none"

ScenarioStep == scenario' = [d \in DatasetIds |-> ScenarioAfter(d)]

QuietCallers == \A c \in CallerIds : callers[c].pc = "idle"

DatasetSerialNext ==
    \/ \E d \in DatasetIds : QuietCallers /\ CreateDataset(d)
          /\ ScenarioStep
          /\ UNCHANGED <<instances, edges>>
    \/ \E c \in CallerIds, d \in DatasetIds :
          QuietCallers /\ CreateVersionRead(c, d)
          /\ ScenarioStep
          /\ UNCHANGED <<instances, edges>>
    \/ \E c \in CallerIds : CreateVersionInsert(c)
          /\ ScenarioStep
          /\ UNCHANGED <<instances, edges>>
    \/ \E v \in StoredVersionIds, rows \in RowCounts, size \in StorageSizes,
          quality \in QualityScores :
          QuietCallers /\ Finalize(v, rows, size, quality)
          /\ ScenarioStep
          /\ UNCHANGED <<instances, edges>>
    \/ \E v \in StoredVersionIds : QuietCallers /\ FailVersion(v)
          /\ ScenarioStep
          /\ UNCHANGED <<instances, edges>>
    \/ \E d \in DatasetIds, n \in 1..MaxDatasetVersions :
          QuietCallers /\ SetCurrent(d, n)
          /\ ScenarioStep
          /\ UNCHANGED <<instances, edges>>
    \/ \E c \in CallerIds, d \in DatasetIds, n \in 1..MaxDatasetVersions :
          QuietCallers /\ DeleteLoad(c, d, n)
          /\ ScenarioStep
          /\ UNCHANGED <<instances, edges>>
    \/ \E c \in CallerIds : DeleteGet(c)
          /\ ScenarioStep
          /\ UNCHANGED <<instances, edges>>
    \/ \E c \in CallerIds : DeleteCheck(c)
          /\ ScenarioStep
          /\ UNCHANGED <<instances, edges>>
    \/ \E c \in CallerIds : DeleteRow(c)
          /\ ScenarioStep
          /\ UNCHANGED instances

DatasetSerialSpec == Init /\ [][DatasetSerialNext]_vars

\* delete_version and setCurrent called concurrently: versions are made and
\* finalized one call at a time, then the statements of delete_version run
\* interleaved with each other and with setCurrent.
CurrentRaceNext ==
    \/ \E d \in DatasetIds : QuietCallers /\ CreateDataset(d)
          /\ UNCHANGED <<scenario, instances, edges>>
    \/ \E c \in CallerIds, d \in DatasetIds :
          QuietCallers /\ CreateVersionRead(c, d)
          /\ UNCHANGED <<scenario, instances, edges>>
    \/ \E c \in CallerIds : CreateVersionInsert(c)
          /\ UNCHANGED <<scenario, instances, edges>>
    \/ \E v \in StoredVersionIds, rows \in RowCounts, size \in StorageSizes,
          quality \in QualityScores :
          QuietCallers /\ Finalize(v, rows, size, quality)
          /\ UNCHANGED <<scenario, instances, edges>>
    \/ \E d \in DatasetIds, n \in 1..MaxDatasetVersions : SetCurrent(d, n)
          /\ UNCHANGED <<scenario, instances, edges>>
    \/ \E c \in CallerIds, d \in DatasetIds, n \in 1..MaxDatasetVersions :
          DeleteLoad(c, d, n)
          /\ UNCHANGED <<scenario, instances, edges>>
    \/ \E c \in CallerIds : DeleteGet(c)
          /\ UNCHANGED <<scenario, instances, edges>>
    \/ \E c \in CallerIds : DeleteCheck(c)
          /\ UNCHANGED <<scenario, instances, edges>>
    \/ \E c \in CallerIds : DeleteRow(c)
          /\ UNCHANGED <<scenario, instances>>

CurrentRaceSpec == Init /\ [][CurrentRaceNext]_vars

\* ------------------------------------------------- the Lineage Tracker
\* the upstream references of an edge that are populated, by kind
Populated(e) ==
    {k \in LineageTypes :
        \/ k = "source" /\ e.source_data_source # NoRef
        \/ k = "pipeline" /\ e.source_pipeline # NoRef
        \/ k = "dataset" /\ e.source_dataset_version # NoRef}

\* faulty variant: the kind has to be backed, other references are let in
ValidEdge_KindBacked(e) == e.source_type \in Populated(e)

\* exactly one reference populated, the one named by the kind
ValidEdge(e) == Populated(e) = {e.source_type}

\* recordEdge(datasetVersionId, kind, upstreamRef, transformationDetails)
\* the id the store gives the next row
NextEdgeId == SetMax({e.id : e \in edges} \cup {0}) + 1

RecordEdge(v, kind, ds, p, dv) ==
    LET e == Edge(v, kind, ds, p, dv)
        row == [e EXCEPT !.id = NextEdgeId]
    IN  /\ Cardinality(edges) < MaxEdges
        /\ edges' = IF ValidEdge(e) THEN edges \cup {row} ELSE edges
        /\ dresponse' = [op |-> "recordEdge", dataset |-> dversions[v].dataset,
                         vid |-> v, n |-> dversions[v].version_number,
                         result |-> IF ValidEdge(e) THEN "ok"
                                    ELSE "ValidationError",
                         retries |-> 0, row_count |-> 0,
                         edge |-> IF ValidEdge(e) THEN row ELSE e,
                         lineage |-> {}]
        /\ UNCHANGED <<datasets, dversions, callers>>
        /\ UNCHANGED pipelineVars

\* faulty variant: the edges of the upstream versions are followed
EdgesOf_Upstream(v) ==
    {e \in edges :
        \/ e.dataset_version = v
        \/ \E f \in edges : /\ f.dataset_version = v
                             /\ f.source_dataset_version = e.dataset_version}

\* version.lineage.all()
EdgesOf(v) == {e \in edges : e.dataset_version = v}

\* DatasetViewSet.lineage: get_object(), the version by number, its edges
Lineage(d, n) ==
    /\ IF ~datasets[d].exists \/ ~SlotTaken(d, n)
       THEN Answer("lineage", d, 0, n, "NotFound", 0, 0)
       ELSE dresponse' = [op |-> "lineage", dataset |-> d,
                          vid |-> VersionIdOf(d, n), n |-> n, result |-> "ok",
                          retries |-> 0, row_count |-> 0, edge |-> NoEdge,
                          lineage |-> EdgesOf(VersionIdOf(d, n))]
    /\ UNCHANGED <<datasets, dversions, callers, edges>>
    /\ UNCHANGED pipelineVars

\* One request at a time: createVersion, delete_version and the tracker.
\* Neither the state of a version nor the current pointer matters to the
\* edges, so finalize and setCurrent are left out and no version is current.
LineageNext ==
    \/ \E d \in DatasetIds : QuietCallers /\ CreateDataset(d)
          /\ UNCHANGED <<scenario, instances, edges>>
    \/ \E c \in CallerIds, d \in DatasetIds :
          QuietCallers /\ CreateVersionRead(c, d)
          /\ UNCHANGED <<scenario, instances, edges>>
    \/ \E c \in CallerIds : CreateVersionInsert(c)
          /\ UNCHANGED <<scenario, instances, edges>>
    \/ \E c \in CallerIds, d \in DatasetIds, n \in 1..MaxDatasetVersions :
          QuietCallers /\ DeleteLoad(c, d, n)
          /\ UNCHANGED <<scenario, instances, edges>>
    \/ \E c \in CallerIds : DeleteGet(c)
          /\ UNCHANGED <<scenario, instances, edges>>
    \/ \E c \in CallerIds : DeleteCheck(c)
          /\ UNCHANGED <<scenario, instances, edges>>
    \/ \E c \in CallerIds : DeleteRow(c)
          /\ UNCHANGED <<scenario, instances>>
    \/ \E v \in StoredVersionIds, kind \in LineageTypes,
          ds \in DataSourceIds \cup {NoRef}, p \in PipelineIds \cup {NoRef} :
          \E dv \in (StoredVersionIds \ {v}) \cup {NoRef} :
          QuietCallers /\ RecordEdge(v, kind, ds, p, dv)
          /\ UNCHANGED <<scenario, instances>>
    \/ \E d \in DatasetIds, n \in 1..MaxDatasetVersions :
          QuietCallers /\ Lineage(d, n)
          /\ UNCHANGED <<scenario, instances>>

LineageSpec == Init /\ [][LineageNext]_vars

\* ------------------------------------------- schema fingerprints alone
FingerprintInit ==
    /\ pipelines = [p \in PipelineIds |-> NoRow]
    /\ versions = {}
    /\ executions = <<>>
    /\ handlers = [h \in HandlerIds |-> IdleHandler]
    /\ lastOp = [p \in PipelineIds |-> "none"]
    /\ response = NoResponse
    /\ datasets = [d \in DatasetIds |-> NoDataset]
    /\ dversions = <<>>
    /\ callers = [c \in CallerIds |-> IdleCaller]
    /\ dresponse = NoAnswer
    /\ scenario = [d \in DatasetIds |-> "none"]
    /\ instances \in [InstanceIds -> {NewInstance(s) : s \in Schemas}]
    /\ edges = {}

\* version.schema = s
SetSchema(i, s) ==
    /\ instances' = [instances EXCEPT ![i].schema = s]
    /\ UNCHANGED <<pipelineVars, datasets, dversions, callers, dresponse,
                   scenario, edges>>

\* version.save()
SaveVersion(i) ==
    /\ instances' = [instances EXCEPT ![i] = SaveInstance(@)]
    /\ UNCHANGED <<pipelineVars, datasets, dversions, callers, dresponse,
                   scenario, edges>>

FingerprintNext ==
    \/ \E i \in InstanceIds, s \in Schemas : SetSchema(i, s)
    \/ \E i \in InstanceIds : SaveVersion(i)

FingerprintSpec == FingerprintInit /\ [][FingerprintNext]_vars

\* two JSON values with the same content, whatever the order of the keys
SameObject(a, b) ==
    /\ KeysOf(a) = KeysOf(b)
    /\ \A k \in KeysOf(a) : Get(a, k) = Get(b, k)

SameArray(a, b) ==
    /\ Len(a) = Len(b)
    /\ \A i \in 1..Len(a) : SameObject(a[i], b[i])

SameSchema(a, b) ==
    /\ KeysOf(a) = KeysOf(b)
    /\ \A k \in KeysOf(a) : SameArray(Get(a, k), Get(b, k))

TypeOK ==
    /\ \A p \in PipelineIds :
          pipelines[p].state \in PipelineStates \cup {"absent"}
    /\ \A e \in ExecutionIds : executions[e].state \in ExecutionStates
    /\ Cardinality(versions) + Len(executions) <= MaxRows
\* ================================================================ claims

\* C1: every pipeline has at most one execution in state queued or running,
\* whatever the interleaving of trigger calls and orchestrator calls.
C1_SingleActiveExecution ==
    \A p \in PipelineIds : Cardinality(ActiveExecutions(p)) <= 1

\* C2: a trigger called while an execution of the pipeline is queued or
\* running is answered with Conflict and creates no execution.
C2_TriggerWhileActiveConflicts ==
    (response.op = "execute" /\ response.activeAtCall)
        => (response.result = "Conflict" /\ response.eid = 0)

\* C3: trigger is indivisible: the store never holds the execution a trigger
\* created while the pipeline's lifecycle written by that trigger is missing.
C3_TriggerIndivisible ==
    \A h \in HandlerIds :
        handlers[h].pc = "exec_save"
            => pipelines[handlers[h].pid].state = "running"

\* C4: a trigger on a pipeline whose lifecycle state at the call is draft,
\* validating or running is answered with Conflict, and that step changes no
\* execution, no version and no pipeline row.
C4_BadStateTriggerRejected ==
    [][ (response'.op = "execute"
           /\ response'.stateAtCall \in {"draft", "validating", "running"})
         => (/\ response'.result = "Conflict"
             /\ response'.eid = 0
             /\ UNCHANGED <<pipelines, versions, executions>>) ]_vars

C4_Witness ==
    /\ response.op = "execute"
    /\ response.stateAtCall = "running"
    /\ response.result = "Conflict"
    /\ pipelines[response.pid].state = "running"

\* C5: a trigger that passed the state checks works on the row it loaded at
\* the call; if the version numbered current_version of that row exists it
\* appends exactly one execution (queued, bound to that version) and then
\* writes lifecycle running; if not, it answers ValidationError and changes
\* no execution and no pipeline row.
C5_TriggerCreatesQueuedExecution ==
    [][ \A h \in HandlerIds :
          LET me == handlers[h]
              now == handlers'[h]
          IN  /\ (me.pc = "idle" /\ now.pc = "exec_version")
                    => now.inst = pipelines[now.pid]
              /\ (me.pc = "exec_version" /\ now # me)
                    => IF VersionExists(me.pid, me.inst.current_version)
                       THEN /\ now.pc = "exec_create"
                            /\ UNCHANGED <<pipelines, executions>>
                       ELSE /\ response'.op = "execute"
                            /\ response'.result = "ValidationError"
                            /\ response'.eid = 0
                            /\ UNCHANGED <<pipelines, executions>>
              /\ (me.pc = "exec_create" /\ now # me)
                    => /\ Len(executions') = Len(executions) + 1
                       /\ SubSeq(executions', 1, Len(executions)) = executions
                       /\ now.eid = Len(executions')
                       /\ executions'[now.eid].state = "queued"
                       /\ executions'[now.eid].pipeline = me.pid
                       /\ executions'[now.eid].pipeline_version
                              = me.inst.current_version
                       /\ VersionExists(me.pid, me.inst.current_version)
                       /\ now.pc = "exec_save"
              /\ (me.pc = "exec_save" /\ now # me)
                    => /\ pipelines'[me.pid].state = "running"
                       /\ executions' = executions
                       /\ response'.op = "execute"
                       /\ response'.result = "ok"
                       /\ response'.eid = me.eid ]_vars

C5_Witness ==
    /\ response.op = "execute"
    /\ response.result = "ok"
    /\ response.eid \in ExecutionIds
    /\ executions[response.eid].state = "queued"
    /\ executions[response.eid].pipeline_version = 2
    /\ pipelines[response.pid].state = "running"

\* the ValidationError case of C5 is reachable as well
C5_NoVersionReached ==
    /\ response.op = "execute"
    /\ response.result = "ValidationError"

\* C6: a trigger called right after recordCompletion or recordFailure ended
\* the pipeline's only non-terminal execution succeeds and has created a new
\* execution of that pipeline.
C6_RetriggerAfterTerminal ==
    (/\ response.op = "execute"
     /\ response.lastOpAtCall \in {"recordCompletion", "recordFailure"}
     /\ ~response.activeAtCall)
        => (/\ response.result = "ok"
            /\ response.eid \in ExecutionIds
            /\ executions[response.eid].pipeline = response.pid
            /\ executions[response.eid].pipeline_version > 0)

C6_Witness ==
    /\ response.op = "execute"
    /\ response.lastOpAtCall = "recordCompletion"
    /\ ~response.activeAtCall
    /\ response.result = "ok"
    /\ executions[response.eid].state = "queued"
    /\ \E e \in ExecutionIds : executions[e].state = "completed"

\* C7 as written: a trigger called directly after create, with no other
\* operation on the pipeline in between, returns a queued execution.
C7_TriggerAfterCreateQueued ==
    (response.op = "execute" /\ response.lastOpAtCall = "create")
        => (response.result = "ok" /\ response.eid \in ExecutionIds)

\* C7 amended: a trigger called directly after create, with no other
\* operation on the pipeline in between, finds the pipeline in draft, is
\* answered with Conflict and creates no execution.
C7_TriggerAfterCreateConflicts ==
    (response.op = "execute" /\ response.lastOpAtCall = "create")
        => (/\ response.stateAtCall = "draft"
            /\ response.result = "Conflict"
            /\ response.eid = 0
            /\ \A e \in ExecutionIds : executions[e].pipeline # response.pid)

C7_Witness ==
    /\ response.op = "execute"
    /\ response.lastOpAtCall = "create"
    /\ response.result = "Conflict"
    /\ VersionExists(response.pid, 1)

\* C8: once an execution is completed, failed or cancelled, no step changes
\* any of its fields.
C8_TerminalImmutable ==
    [][ \A e \in ExecutionIds :
          executions[e].state \in Terminal
              => (e <= Len(executions') /\ executions'[e] = executions[e]) ]_vars

C8_Witness ==
    /\ response.op \in {"recordStart", "recordCompletion", "recordFailure", "cancel"}
    /\ response.result = "InvalidTransition"
    /\ executions[response.eid].state = "completed"
    /\ \E e \in ExecutionIds : e > response.eid

\* C9: recordStart on a queued execution succeeds, moves it to running and
\* sets started_at; on an execution in any other state it is answered with
\* InvalidTransition and changes nothing.
C9_RecordStartOnlyFromQueued ==
    [][ \A e \in ExecutionIds :
          (response'.op = "recordStart" /\ response'.eid = e)
              => IF executions[e].state = "queued"
                 THEN /\ response'.result = "ok"
                      /\ executions'[e].state = "running"
                      /\ executions'[e].started_at \in Times
                 ELSE /\ response'.result = "InvalidTransition"
                      /\ UNCHANGED <<pipelines, versions, executions>> ]_vars

C9_Witness ==
    /\ response.op = "recordStart"
    /\ response.result = "InvalidTransition"
    /\ executions[response.eid].state = "running"
    /\ executions[response.eid].started_at \in Times

\* C10: recordCompletion on a running execution succeeds: the execution is
\* completed with completed_at, metrics and produced dataset version stored
\* and the pipeline's lifecycle is completed; on a queued or terminal
\* execution it is rejected and changes neither execution nor pipeline.
C10_RecordCompletionOnlyFromRunning ==
    [][ \A e \in ExecutionIds :
          (response'.op = "recordCompletion" /\ response'.eid = e)
              => IF executions[e].state = "running"
                 THEN /\ response'.result = "ok"
                      /\ executions'[e].state = "completed"
                      /\ executions'[e].completed_at \in Times
                      /\ executions'[e].rows_processed \in MetricValues
                      /\ executions'[e].created_dataset_version
                             \in DatasetVersionIds
                      /\ executions'[e].started_at = executions[e].started_at
                      /\ pipelines'[executions[e].pipeline].state = "completed"
                 ELSE /\ response'.result = "InvalidTransition"
                      /\ UNCHANGED <<pipelines, versions, executions>> ]_vars

C10_Witness ==
    /\ response.op = "recordCompletion"
    /\ response.result = "ok"
    /\ executions[response.eid].state = "completed"
    /\ pipelines[response.pid].state = "completed"

\* a rejected recordCompletion on a queued execution is reachable as well
C10_RejectedReached ==
    /\ response.op = "recordCompletion"
    /\ response.result = "InvalidTransition"
    /\ executions[response.eid].state = "queued"

\* C11: recordFailure on a queued or running execution succeeds: the
\* execution is failed with the error text stored and the owning pipeline's
\* lifecycle is failed; on a terminal execution it is rejected and changes
\* nothing.
C11_RecordFailureFromNonTerminal ==
    [][ \A e \in ExecutionIds :
          (response'.op = "recordFailure" /\ response'.eid = e)
              => IF executions[e].state \in {"queued", "running"}
                 THEN /\ response'.result = "ok"
                      /\ executions'[e].state = "failed"
                      /\ executions'[e].error_message \in ErrorTexts
                      /\ pipelines'[executions[e].pipeline].state = "failed"
                 ELSE /\ response'.result = "InvalidTransition"
                      /\ UNCHANGED <<pipelines, versions, executions>> ]_vars

\* a failure recorded before the start: the execution never ran
C11_Witness ==
    /\ response.op = "recordFailure"
    /\ response.result = "ok"
    /\ executions[response.eid].state = "failed"
    /\ executions[response.eid].started_at = 0
    /\ executions[response.eid].error_message \in ErrorTexts
    /\ pipelines[response.pid].state = "failed"

\* a rejected recordFailure on a terminal execution is reachable as well
C11_RejectedReached ==
    /\ response.op = "recordFailure"
    /\ response.result = "InvalidTransition"
    /\ executions[response.eid].state \in {"completed", "cancelled"}

\* C12: cancel succeeds exactly when the execution is queued or running and
\* then sets it to cancelled; on a completed, failed or cancelled execution
\* it is rejected and leaves the execution unchanged.
C12_CancelOnlyNonTerminal ==
    [][ \A e \in ExecutionIds :
          (response'.op = "cancel" /\ response'.eid = e)
              => /\ response'.result = "ok"
                     <=> executions[e].state \in {"queued", "running"}
                 /\ response'.result = "ok"
                     => executions'[e].state = "cancelled"
                 /\ response'.result # "ok"
                     => /\ response'.result = "InvalidTransition"
                        /\ executions' = executions ]_vars

C12_Witness ==
    /\ response.op = "cancel"
    /\ response.result = "ok"
    /\ executions[response.eid].state = "cancelled"

\* a rejected cancel on a completed execution is reachable as well
C12_RejectedReached ==
    /\ response.op = "cancel"
    /\ response.result = "InvalidTransition"
    /\ executions[response.eid].state \in {"completed", "failed"}

\* C13: in every sequence of updateConfig calls made one after the other, a
\* call whose config equals the pipeline's config creates no PipelineVersion
\* and leaves current_version as it is, and a call whose config differs
\* creates exactly one PipelineVersion, numbered old current_version + 1,
\* and advances current_version to that number.  (The call is three
\* statements: the load, the insert of the version, the save.)
C13_UpdateVersioning ==
    [][ \A h \in HandlerIds :
          LET me == handlers[h]
              p == me.pid
              q == handlers'[h].pid
          IN  /\ (me.pc = "idle" /\ handlers'[h].pc = "upd_save")
                    => /\ handlers'[h].inst.config = pipelines[q].config
                       /\ UNCHANGED <<pipelines, versions>>
              /\ (me.pc = "idle" /\ handlers'[h].pc = "upd_version")
                    => /\ handlers'[h].inst.config # pipelines[q].config
                       /\ UNCHANGED <<pipelines, versions>>
              /\ (me.pc = "upd_version" /\ handlers'[h].pc # "upd_version")
                    => /\ handlers'[h].pc = "upd_save"
                       /\ versions' = versions \cup
                             {NewVersion(p, pipelines[p].current_version + 1,
                                         me.inst.config)}
                       /\ Cardinality(versions') = Cardinality(versions) + 1
                       /\ UNCHANGED pipelines
              /\ (me.pc = "upd_save" /\ handlers'[h].pc # "upd_save")
                    => /\ response'.op = "update"
                       /\ response'.result = "ok"
                       /\ versions' = versions
                       /\ pipelines'[p].current_version =
                             IF me.inst.config = pipelines[p].config
                             THEN pipelines[p].current_version
                             ELSE pipelines[p].current_version + 1
                       /\ VersionExists(p, pipelines'[p].current_version) ]_vars

\* two config changes in a row were answered: versions 1, 2, 3
C13_Witness ==
    /\ response.op = "update"
    /\ response.result = "ok"
    /\ pipelines[response.pid].current_version = 3
    /\ \A n \in 1..3 : VersionExists(response.pid, n)

\* C14: under any interleaving of concurrent updateConfig calls on a
\* pipeline, every call that changes the config ends with its own new
\* PipelineVersion: a clash on the next version number is retried inside
\* the call and never becomes its answer, so no changed config is lost.
C14_ConcurrentUpdatesAllVersioned ==
    ~(response.op = "update" /\ response.result = "IntegrityError")

VersionsOf(p) == {v \in versions : v.pipeline = p}

\* create(p) has made its first insert and not yet its second
Creating(p) ==
    \E h \in HandlerIds :
        handlers[h].pc = "create_version" /\ handlers[h].pid = p

C16_CreateValidatesSchedule ==
    [][ response'.op = "create"
          => LET p == response'.pid
             IN  IF response'.mode = "scheduled" /\ response'.expr = ""
                 THEN /\ response'.result = "ValidationError"
                      /\ UNCHANGED <<pipelines, versions>>
                 ELSE /\ response'.result = "ok"
                      /\ pipelines'[p].state = "draft"
                      /\ pipelines'[p].current_version = 1
                      /\ \E h \in HandlerIds :
                            /\ handlers[h].pc = "create_version"
                            /\ handlers[h].pid = p
                            /\ {v \in versions' : v.pipeline = p}
                                 = {NewVersion(p, 1, handlers[h].inst.config)}
                            /\ pipelines'[p].config = handlers[h].inst.config
                      /\ {v \in versions : v.pipeline = p} = {} ]_vars

\* the rejected request: scheduled, no expression, nothing inserted
C16_Witness ==
    /\ response.op = "create"
    /\ response.result = "ValidationError"
    /\ response.mode = "scheduled"
    /\ response.expr = ""
    /\ ~Exists(response.pid)

\* an accepted scheduled create is reachable as well
C16_ScheduledCreated ==
    /\ response.op = "create"
    /\ response.result = "ok"
    /\ pipelines[response.pid].execution_mode = "scheduled"
    /\ pipelines[response.pid].schedule_expression # ""
    /\ VersionExists(response.pid, 1)

\* C17: deleting a pipeline is a soft delete: while the pipeline has a queued
\* or running execution the call is answered with Conflict and changes
\* nothing; otherwise it only marks the pipeline row deleted and leaves
\* every PipelineVersion and PipelineExecution as it is.
C17_DeleteIsSoft ==
    [][ (response'.op = "destroy" /\ response'.result # "NotFound")
          => LET p == response'.pid
             IN  IF ActiveExecutions(p) # {}
                 THEN /\ response'.result = "Conflict"
                      /\ UNCHANGED <<pipelines, versions, executions>>
                 ELSE /\ response'.result = "ok"
                      /\ pipelines' = [pipelines EXCEPT ![p].is_deleted = TRUE]
                      /\ UNCHANGED <<versions, executions>> ]_vars

HandlerPcs_Update == {"upd_version", "upd_save"}
HandlerPcs_Execute == {"exec_version", "exec_create", "exec_save"}

\* C18: updateConfig and trigger on a pipeline that does not exist or is
\* soft-deleted are answered with NotFound, no handler goes on with the
\* call, and no pipeline, version or execution changes.
C18_MissingPipelineNotFound ==
    [][ \A p \in PipelineIds :
          (~Exists(p) \/ pipelines[p].is_deleted)
              => /\ (response'.op \in {"update", "execute"} /\ response'.pid = p)
                     => /\ response'.result = "NotFound"
                        /\ UNCHANGED <<pipelines, versions, executions>>
                 /\ \A h \in HandlerIds :
                       (handlers'[h].pc \in HandlerPcs_Update \cup HandlerPcs_Execute
                          /\ handlers'[h].pid = p)
                            => handlers'[h] = handlers[h] ]_vars

\* a trigger or update of a soft-deleted pipeline was answered NotFound
C18_Witness ==
    /\ response.op \in {"update", "execute"}
    /\ response.result = "NotFound"
    /\ Exists(response.pid)
    /\ pipelines[response.pid].is_deleted

\* the same for a pipeline that has no row
C18_AbsentReached ==
    /\ response.op \in {"update", "execute"}
    /\ response.result = "NotFound"
    /\ ~Exists(response.pid)

\* no two stored DatasetVersions share (dataset, version_number)
NoSharedSlot ==
    \A i, j \in StoredVersionIds :
        (/\ dversions[i].dataset = dversions[j].dataset
         /\ dversions[i].version_number = dversions[j].version_number) => i = j

\* C19: under any interleaving of concurrent createVersion calls on a
\* dataset, every call that is answered gets a version number no stored
\* version of the dataset has, no two DatasetVersions ever share
\* (dataset, version_number), and the row a call inserts is in state
\* creating.
C19_DistinctVersionNumbers ==
    [][ /\ NoSharedSlot'
        /\ (dresponse'.op = "createVersion" /\ dresponse'.result = "ok")
              => /\ dresponse'.n \notin VersionNumbers(dresponse'.dataset)
                 /\ Len(dversions') = Len(dversions) + 1
                 /\ dresponse'.vid = Len(dversions')
                 /\ dversions'[dresponse'.vid].dataset = dresponse'.dataset
                 /\ dversions'[dresponse'.vid].version_number = dresponse'.n
                 /\ dversions'[dresponse'.vid].state = "creating"
        /\ Len(dversions') # Len(dversions)
              => (dresponse'.op = "createVersion" /\ dresponse'.result = "ok")
      ]_vars

\* two overlapping calls read the same number; the one that clashed read
\* again and got the next one
C19_Witness ==
    /\ dresponse.op = "createVersion"
    /\ dresponse.result = "ok"
    /\ dresponse.retries > 0
    /\ dresponse.n = 2
    /\ VersionNumbers(dresponse.dataset) = {1, 2}

\* C20: finalize on a DatasetVersion in state creating succeeds, sets it to
\* ready and stores the metrics; on a version in ready or failed it is
\* answered with InvalidTransition and the version, its row count, size and
\* quality metrics included, stays as it is.
C20_FinalizeOnlyFromCreating ==
    [][ \A v \in StoredVersionIds :
          (dresponse'.op = "finalize" /\ dresponse'.vid = v)
              => IF dversions[v].state = "creating"
                 THEN /\ dresponse'.result = "ok"
                      /\ dversions'[v].state = "ready"
                      /\ dversions'[v].row_count = dresponse'.row_count
                      /\ dversions'[v].row_count \in RowCounts
                      /\ dversions'[v].storage_size_bytes \in StorageSizes
                      /\ dversions'[v].quality_score \in QualityScores
                 ELSE /\ dresponse'.result = "InvalidTransition"
                      /\ dversions' = dversions ]_vars

\* a second finalize with another row count was rejected: the stored row
\* count is still the first one
C20_Witness ==
    /\ dresponse.op = "finalize"
    /\ dresponse.result = "InvalidTransition"
    /\ dversions[dresponse.vid].state = "ready"
    /\ dversions[dresponse.vid].row_count \in RowCounts
    /\ dversions[dresponse.vid].row_count # dresponse.row_count

\* a finalize of a failed version is rejected as well
C20_FailedReached ==
    /\ dresponse.op = "finalize"
    /\ dresponse.result = "InvalidTransition"
    /\ dversions[dresponse.vid].state = "failed"
    /\ dversions[dresponse.vid].row_count = 0

\* C21: setCurrent(dataset, n) on a version in state creating or failed is
\* answered with Conflict and leaves the dataset's current_version as it
\* is; whenever a current_version changes, its new value names a ready
\* version of the dataset.
C21_OnlyReadyBecomesCurrent ==
    [][ /\ \A d \in DatasetIds :
              datasets'[d].current_version # datasets[d].current_version
                  => /\ SlotTaken(d, datasets'[d].current_version)
                     /\ dversions[VersionIdOf(d, datasets'[d].current_version)]
                            .state = "ready"
        /\ (dresponse'.op = "setCurrent" /\ dresponse'.vid # 0)
              => IF dversions[dresponse'.vid].state \in {"creating", "failed"}
                 THEN /\ dresponse'.result = "Conflict"
                      /\ UNCHANGED <<datasets, dversions>>
                 ELSE /\ dresponse'.result = "ok"
                      /\ datasets'[dresponse'.dataset].current_version
                            = dresponse'.n ]_vars

\* version 1 is current; setCurrent on version 2, which failed, was refused
C21_Witness ==
    /\ dresponse.op = "setCurrent"
    /\ dresponse.result = "Conflict"
    /\ dresponse.n = 2
    /\ dversions[dresponse.vid].state = "failed"
    /\ datasets[dresponse.dataset].current_version = 1

\* the same for a version still in state creating
C21_CreatingReached ==
    /\ dresponse.op = "setCurrent"
    /\ dresponse.result = "Conflict"
    /\ dversions[dresponse.vid].state = "creating"

DeletePcs == {"del_get", "del_count", "del_row"}

\* C22: deleteVersion(dataset, n) is answered with Conflict and deletes
\* nothing when n is the dataset's only version or its current version; for
\* any other existing version it removes exactly that version and leaves
\* current_version and every other version as they are.  (Calls made one
\* after the other; the steps of a call before its answer change nothing.)
C22_DeleteVersionFrame ==
    [][ /\ (dresponse'.op = "deleteVersion" /\ dresponse'.result # "NotFound")
              => LET d == dresponse'.dataset
                     n == dresponse'.n
                 IN  /\ SlotTaken(d, n)
                     /\ IF Cardinality(VersionNumbers(d)) = 1
                           \/ n = datasets[d].current_version
                        THEN /\ dresponse'.result = "Conflict"
                             /\ UNCHANGED <<datasets, dversions>>
                        ELSE /\ dresponse'.result = "ok"
                             /\ StoredVersionIds'
                                   = StoredVersionIds \ {VersionIdOf(d, n)}
                             /\ \A v \in StoredVersionIds' :
                                   dversions'[v] = dversions[v]
                             /\ datasets' = datasets
        /\ \A c \in CallerIds :
              (callers[c].pc \in DeletePcs \cup {"idle"}
                 /\ callers'[c].pc \in DeletePcs)
                  => UNCHANGED <<datasets, dversions>> ]_vars

\* version 1 of three was deleted while version 2 is current
C22_Witness ==
    /\ dresponse.op = "deleteVersion"
    /\ dresponse.result = "ok"
    /\ dresponse.n = 1
    /\ datasets[dresponse.dataset].current_version = 2
    /\ VersionNumbers(dresponse.dataset) = {2, 3}

\* the refusals: the only version, and the current version
C22_OnlyVersionRefused ==
    /\ dresponse.op = "deleteVersion"
    /\ dresponse.result = "Conflict"
    /\ Cardinality(VersionNumbers(dresponse.dataset)) = 1

C22_CurrentRefused ==
    /\ dresponse.op = "deleteVersion"
    /\ dresponse.result = "Conflict"
    /\ Cardinality(VersionNumbers(dresponse.dataset)) > 1
    /\ datasets[dresponse.dataset].current_version = dresponse.n

\* C23 as stated: on a dataset whose only version is 1 (current),
\* deleteVersion(D,1) is refused; createVersion then yields version 2,
\* setCurrent(D,2) is called, and deleteVersion(D,1) then succeeds.
C23_DeleteAfterSetCurrentCalled ==
    [][ \A d \in DatasetIds :
          (/\ scenario[d] = "called"
           /\ dresponse'.op = "deleteVersion"
           /\ dresponse'.dataset = d
           /\ dresponse'.n = 1)
              => dresponse'.result = "ok" ]_vars

\* C23 amended: on a dataset whose only version is 1 (current),
\* deleteVersion(D,1) is refused with Conflict; after createVersion yields
\* version 2, finalize makes it ready and setCurrent(D,2) is called,
\* version 2 is current and deleteVersion(D,1) succeeds and removes
\* version 1.
C23_DeleteAfterPromotion ==
    [][ \A d \in DatasetIds :
          (dresponse'.op = "deleteVersion" /\ dresponse'.dataset = d
             /\ dresponse'.n = 1)
              => /\ (VersionNumbers(d) = {1} /\ datasets[d].current_version = 1)
                     => (dresponse'.result = "Conflict"
                           /\ UNCHANGED <<datasets, dversions>>)
                 /\ scenario[d] = "promoted"
                     => /\ datasets[d].current_version = 2
                        /\ dresponse'.result = "ok"
                        /\ VersionNumbers(d)' = {2} ]_vars

\* the whole scenario was played: refused, created, finalized, promoted,
\* deleted
C23_Witness ==
    \E d \in DatasetIds :
        /\ dresponse.op = "deleteVersion"
        /\ dresponse.dataset = d
        /\ dresponse.result = "ok"
        /\ dresponse.n = 1
        /\ datasets[d].current_version = 2
        /\ VersionNumbers(d) = {2}
        /\ dversions[1].deleted
        /\ Len(dversions) = 2

\* C24: the fingerprint depends only on the content of the schema: two
\* versions whose schemas differ at most in the order of the keys of their
\* mappings have the same fingerprint, and the same schema always gets the
\* same fingerprint.
C24_FingerprintIgnoresKeyOrder ==
    \A i, j \in InstanceIds :
        (/\ instances[i].schema_hash # NoHash
         /\ instances[j].schema_hash # NoHash
         /\ SameSchema(instances[i].hashed_schema, instances[j].hashed_schema))
            => instances[i].schema_hash = instances[j].schema_hash

\* two fingerprinted schemas that differ in key order at both levels
C24_Witness ==
    \E i, j \in InstanceIds :
        /\ instances[i].schema_hash # NoHash
        /\ instances[j].schema_hash = instances[i].schema_hash
        /\ Len(instances[i].hashed_schema) = 2
        /\ instances[i].hashed_schema[1][1] # instances[j].hashed_schema[1][1]
        /\ Len(Get(instances[i].hashed_schema, "columns")) = 1
        /\ Get(instances[i].hashed_schema, "columns")[1][1][1]
              # Get(instances[j].hashed_schema, "columns")[1][1][1]
        /\ SameSchema(instances[i].hashed_schema, instances[j].hashed_schema)

\* different content is told apart
C24_DistinctReached ==
    \E i, j \in InstanceIds :
        /\ instances[i].schema_hash # NoHash
        /\ instances[j].schema_hash # NoHash
        /\ instances[j].schema_hash # instances[i].schema_hash

\* C25: a fingerprint, once present, is changed by no later save; save
\* computes it only when the version has a schema and no fingerprint yet.
C25_FingerprintComputedOnce ==
    [][ \A i \in InstanceIds :
          /\ instances[i].schema_hash # NoHash
                => instances'[i].schema_hash = instances[i].schema_hash
          /\ instances'[i].schema_hash # instances[i].schema_hash
                => /\ instances[i].schema # EmptySchema
                   /\ instances'[i].schema_hash
                         = CalculateSchemaHash(instances[i].schema) ]_vars

\* a save after the schema changed: the column count follows the new
\* schema, the fingerprint is still that of the old one
C25_Witness ==
    \E i \in InstanceIds :
        /\ instances[i].schema_hash # NoHash
        /\ "columns" \in KeysOf(instances[i].hashed_schema)
        /\ Len(Get(instances[i].hashed_schema, "columns")) = 1
        /\ "columns" \in KeysOf(instances[i].schema)
        /\ Len(Get(instances[i].schema, "columns")) = 0
        /\ instances[i].column_count = 0
        /\ instances[i].schema_hash # CalculateSchemaHash(instances[i].schema)

\* C26: recordEdge answers ValidationError and stores no edge unless exactly
\* one of the three upstream references is populated and it is the one the
\* kind names; otherwise it stores the edge.
C26_RecordEdgeValidates ==
    [][ dresponse'.op = "recordEdge" =>
          LET e == dresponse'.edge
              refs == <<e.source_data_source, e.source_pipeline,
                        e.source_dataset_version>>
              n == Cardinality({i \in 1..3 : refs[i] # NoRef})
              named == CASE e.source_type = "source" -> e.source_data_source
                         [] e.source_type = "pipeline" -> e.source_pipeline
                         [] e.source_type = "dataset" -> e.source_dataset_version
          IN  IF n = 1 /\ named # NoRef
              THEN dresponse'.result = "ok" /\ edges' = edges \cup {e}
              ELSE dresponse'.result = "ValidationError" /\ edges' = edges ]_vars

\* an edge of kind pipeline without source_pipeline, a data source given
\* instead, was refused
C26_Witness ==
    /\ dresponse.op = "recordEdge"
    /\ dresponse.result = "ValidationError"
    /\ dresponse.edge.source_type = "pipeline"
    /\ dresponse.edge.source_pipeline = NoRef
    /\ dresponse.edge.source_data_source # NoRef
    /\ dresponse.edge \notin edges

\* an edge of kind pipeline with two references populated was refused
C26_TwoReferencesRefused ==
    /\ dresponse.op = "recordEdge"
    /\ dresponse.result = "ValidationError"
    /\ dresponse.edge.source_type = "pipeline"
    /\ dresponse.edge.source_pipeline # NoRef
    /\ dresponse.edge.source_dataset_version # NoRef

C26_EdgeStored ==
    /\ dresponse.op = "recordEdge"
    /\ dresponse.result = "ok"
    /\ dresponse.edge \in edges

\* C28: every stored edge has exactly one populated upstream reference, the
\* one its kind names, also after deleteVersion removed a version that
\* other edges name as their upstream.
C28_StoredEdgesWellFormed ==
    \A e \in edges : Populated(e) = {e.source_type}

\* C27: dueForExecution(now) returns exactly the pipelines that are not
\* deleted, scheduled, ready and whose next_scheduled_run is at or before
\* now; it changes nothing; a poll that directly follows a poll with the
\* same now returns the same set.
C27_DueForExecutionExact ==
    [][ response'.op = "scheduled" =>
          /\ response'.due =
                {p \in PipelineIds :
                    /\ pipelines[p].state = "ready"
                    /\ ~pipelines[p].is_deleted
                    /\ pipelines[p].execution_mode = "scheduled"
                    /\ pipelines[p].next_scheduled_run \in Times
                    /\ pipelines[p].next_scheduled_run <= response'.now}
          /\ UNCHANGED <<pipelines, versions, executions, handlers>>
          /\ (response.op = "scheduled" /\ response.now = response'.now)
                => response'.due = response.due ]_vars

\* a poll found a due pipeline
C27_Witness ==
    /\ response.op = "scheduled"
    /\ response.due # {}
    /\ \A p \in response.due : pipelines[p].next_scheduled_run <= response.now

\* a poll left out a ready, scheduled pipeline that is not yet due
C27_NotYetDue ==
    /\ response.op = "scheduled"
    /\ \E p \in PipelineIds \ response.due :
          /\ Visible(p)
          /\ pipelines[p].state = "ready"
          /\ pipelines[p].execution_mode = "scheduled"
          /\ pipelines[p].next_scheduled_run \in Times
          /\ pipelines[p].next_scheduled_run > response.now

\* a poll left out a deleted pipeline that is otherwise due
C27_DeletedLeftOut ==
    /\ response.op = "scheduled"
    /\ \E p \in PipelineIds \ response.due :
          /\ pipelines[p].is_deleted
          /\ pipelines[p].state = "ready"
          /\ pipelines[p].execution_mode = "scheduled"
          /\ pipelines[p].next_scheduled_run \in Times
          /\ pipelines[p].next_scheduled_run <= response.now

\* a poll left out a scheduled, due pipeline that is running
C27_RunningLeftOut ==
    /\ response.op = "scheduled"
    /\ \E p \in PipelineIds \ response.due :
          /\ Visible(p)
          /\ pipelines[p].state = "running"
          /\ pipelines[p].execution_mode = "scheduled"
          /\ pipelines[p].next_scheduled_run \in Times
          /\ pipelines[p].next_scheduled_run <= response.now

\* the operations that are not updateConfig, by the name in their answer
OtherOperations ==
    {"execute", "validate", "estimate", "recordStart", "recordCompletion",
     "recordFailure", "cancel"}

\* C29: trigger, validate, estimate_resources, the orchestrator's callbacks
\* and cancel never change a pipeline's current_version or config, also
\* when they interleave with a concurrent updateConfig: the step in which
\* one of them answers leaves both columns of every pipeline as they were.
C29_OtherOperationsKeepVersion ==
    [][ response'.op \in OtherOperations =>
          \A p \in PipelineIds :
              /\ pipelines'[p].current_version = pipelines[p].current_version
              /\ pipelines'[p].config = pipelines[p].config ]_vars

\* the lifecycle transitions the specification names
LifecycleTransitions ==
    {<<"draft", "validating">>, <<"validating", "ready">>,
     <<"ready", "running">>, <<"running", "completed">>,
     <<"running", "failed">>, <<"completed", "running">>,
     <<"failed", "running">>}

\* C30: the lifecycle state of a pipeline changes only along draft ->
\* validating, validating -> ready, ready -> running, running -> completed
\* or failed, completed or failed -> running; nothing but recordCompletion
\* and recordFailure moves a pipeline out of running.
C30_LifecycleTransitions ==
    [][ \A p \in PipelineIds :
          (/\ Exists(p)
           /\ pipelines'[p].state # "absent"
           /\ pipelines'[p].state # pipelines[p].state)
              => /\ <<pipelines[p].state, pipelines'[p].state>>
                       \in LifecycleTransitions
                 /\ pipelines[p].state = "running"
                       => response'.op \in {"recordCompletion", "recordFailure"}
       ]_vars

\* the state an orchestrator call leaves the execution in when it succeeds
WinnerState ==
    [cancel |-> "cancelled", recordCompletion |-> "completed",
     recordFailure |-> "failed"]

\* C31: of a cancel and a recordCompletion (or recordFailure) issued
\* together on one running execution, the first to act succeeds and leaves
\* the execution in its terminal state, the other is rejected and changes
\* nothing; a callback that arrives after cancel never changes the
\* cancelled execution.
C31_CancelCompletionRace ==
    [][ \A e \in ExecutionIds :
          /\ executions[e].state \in Terminal => executions'[e] = executions[e]
          /\ (/\ response'.op \in DOMAIN WinnerState
              /\ response'.eid = e
              /\ executions[e].state = "running")
                => /\ response'.result = "ok"
                   /\ executions'[e].state = WinnerState[response'.op]
          /\ (/\ response'.op \in DOMAIN WinnerState
              /\ response'.eid = e
              /\ executions[e].state \in Terminal)
                => /\ response'.result = "InvalidTransition"
                   /\ UNCHANGED <<pipelines, versions, executions>> ]_vars

\* a completion callback was rejected on an execution cancelled while
\* running
C31_Witness ==
    /\ response.op = "recordCompletion"
    /\ response.result = "InvalidTransition"
    /\ executions[response.eid].state = "cancelled"
    /\ executions[response.eid].started_at \in Times

\* a cancel was rejected on an execution that completed first
C31_CancelLost ==
    /\ response.op = "cancel"
    /\ response.result = "InvalidTransition"
    /\ executions[response.eid].state = "completed"

\* C32: the duration of an execution is completed_at minus started_at
\* whenever both timestamps are set, and undefined whenever one of them is
\* missing, in every state of the execution.
C32_DurationDerived ==
    response.op = "retrieveExecution" =>
        LET x == executions[response.eid]
        IN  IF x.started_at \in StampTimes /\ x.completed_at \in StampTimes
            THEN /\ response.duration.defined
                 /\ x.started_at + response.duration.seconds = x.completed_at
            ELSE ~response.duration.defined

\* a completed execution that took time
C32_Witness ==
    /\ response.op = "retrieveExecution"
    /\ executions[response.eid].state = "completed"
    /\ response.duration.defined
    /\ response.duration.seconds > 0

\* an execution cancelled while running has no duration
C32_StartedOnly ==
    /\ response.op = "retrieveExecution"
    /\ executions[response.eid].state = "cancelled"
    /\ executions[response.eid].started_at \in StampTimes
    /\ ~response.duration.defined

\* neither has a queued one
C32_Queued ==
    /\ response.op = "retrieveExecution"
    /\ executions[response.eid].state = "queued"
    /\ ~response.duration.defined

C33_UpstreamLeftOut ==
    /\ dresponse.op = "lineage"
    /\ dresponse.result = "ok"
    /\ \E e \in dresponse.lineage, f \in edges \ dresponse.lineage :
          e.source_dataset_version = f.dataset_version

\* the same edge recorded twice is stored twice
C33_TwiceStored ==
    \E e, f \in edges : e.id # f.id /\ [e EXCEPT !.id = 0] = [f EXCEPT !.id = 0]

\* C34: version numbers are append-only: every createVersion that succeeds
\* gets a number strictly greater than every number ever allocated for the
\* dataset, the numbers of versions deleted since included.
C34_NumbersNeverReused ==
    [][ (dresponse'.op = "createVersion" /\ dresponse'.result = "ok")
          => \A v \in 1..Len(dversions) :
                dversions[v].dataset = dresponse'.dataset
                    => dresponse'.n > dversions[v].version_number ]_vars

\* C35: after any create or update call, partial updates included, every
\* stored pipeline of execution mode scheduled has a non-empty schedule
\* expression
C35_ScheduledHasExpression ==
    \A p \in PipelineIds :
        (Exists(p) /\ pipelines[p].execution_mode = "scheduled")
            => pipelines[p].schedule_expression # ""

\* C36: between requests, a pipeline that has a queued or running execution
\* is in lifecycle state running: no operation, validate included, moves it
\* from running while an execution of it is non-terminal
C36_ActiveMeansRunning ==
    Quiet => \A e \in ExecutionIds :
                executions[e].state \in NonTerminal
                    => pipelines[executions[e].pipeline].state = "running"

\* C37: between requests, a pipeline in lifecycle state running has exactly
\* one queued or running execution; in particular it does not stay running
\* after cancel has ended its only non-terminal execution
C37_RunningHasOneActive ==
    Quiet => \A p \in PipelineIds :
                pipelines[p].state = "running"
                    => Cardinality(ActiveExecutions(p)) = 1

\* C38: whenever the version numbered current_version is stored, the config
\* of the pipeline equals the config_snapshot of that version
C38_ConfigMatchesCurrentVersion ==
    \A p \in PipelineIds : \A v \in versions :
        (Exists(p) /\ v.pipeline = p
                   /\ v.version_number = pipelines[p].current_version)
            => pipelines[p].config = v.config_snapshot

\* the case of C38: an update has answered ok and the pipeline is at the
\* version it made
C38_Witness ==
    \E p \in PipelineIds :
        /\ response.op = "update" /\ response.pid = p /\ response.result = "ok"
        /\ pipelines[p].current_version = 2
        /\ VersionExists(p, 2)

\* the interleaved case of C38: a save of a row loaded before the update has
\* put the pipeline back on version 1 while version 2 is stored
C38_StaleSave ==
    \E p \in PipelineIds :
        /\ Exists(p) /\ Quiet
        /\ pipelines[p].current_version = 1
        /\ VersionExists(p, 1) /\ VersionExists(p, 2)

\* C39: under every interleaving of deleteVersion and setCurrent calls on
\* a dataset, the version numbered current_version of a dataset that has a
\* current version is stored
C39_CurrentVersionKept ==
    \A d \in DatasetIds :
        (datasets[d].exists /\ datasets[d].current_version # 0)
            => SlotTaken(d, datasets[d].current_version)

\* a run of the pipeline has reached completed or failed
HasFinishedRun(p) ==
    \E e \in ExecutionIds :
        /\ executions[e].pipeline = p
        /\ executions[e].state \in {"completed", "failed"}

\* C40: where every run is triggered for a pipeline that the poll selected,
\* a scheduled pipeline whose run has reached completed or failed is
\* selected by every later poll at which its next_scheduled_run is not
\* after now
C40_StaysSchedulable ==
    [][ response'.op = "scheduled"
          => \A p \in PipelineIds :
                (/\ Visible(p)
                 /\ pipelines[p].execution_mode = "scheduled"
                 /\ pipelines[p].next_scheduled_run # NullTime
                 /\ pipelines[p].next_scheduled_run <= response'.now
                 /\ HasFinishedRun(p))
                    => p \in response'.due ]_vars

====
